---- MODULE Spec2Model ----
(***************************************************************************)
(* CoDoc: the tutorial pipeline of src/flow.py and src/nodes.py.           *)
(*                                                                         *)
(* Text is modelled at two grains.  Short strings whose characters the     *)
(* code inspects (index entries, names, labels, chapter bodies) are        *)
(* sequences of one-character strings.  An oracle response that carries    *)
(* YAML is a sequence of tokens: the fence delimiters the extractor        *)
(* splits on, and the runs of text between them, each run carrying the     *)
(* value yaml.safe_load gives for it.                                      *)
(*                                                                         *)
(* Specifications:                                                         *)
(*   Spec       one run of the flow, the oracle answering each call with   *)
(*              one of a few texts                                         *)
(*   SpecFn     the pure functions and the validations of the stages,      *)
(*              each applied once to an input drawn from a bounded set     *)
(*   SpecAll    both of the above side by side                             *)
(*   SpecProse  the run in which the abstraction prompt gets prose only    *)
(*   SpecCache  the run that starts with the cache file of an earlier run  *)
(*   SpecLive   the run with its exec attempts counted, under the fairness *)
(*              of a thread whose calls all return                         *)
(***************************************************************************)
EXTENDS Integers, Sequences, FiniteSets, TLC

VARIABLES
    shared,                  \* the shared store every node reads and writes
    curr,                    \* the node the flow is running, "done" or "failed"
    phase,                   \* "prep", "exec" or "post" of curr
    cur_retry,               \* Node.cur_retry of the running exec
    prep_res,                \* what prep returned
    exec_res,                \* what exec returned
    chapters_written_so_far, \* WriteChapters' accumulator
    cache,                   \* llm_cache.json: prompt -> response text
    error,                   \* the error that ended the run
    started,                 \* history: the nodes started, in order
    index_prompt,            \* what CombineTutorial.prep puts in the landing prompt
    written,                 \* the files written to the output directory
    published,               \* the titles published
    llm_call,                \* the last call of call_llm: prompt, flag, cache hit
    attempts,                \* history: the exec attempts of the run, where counted
    arg,                     \* input of the function applied on its own
    ret                      \* what that function returned

pvars == <<shared, curr, phase, cur_retry, prep_res, exec_res,
           chapters_written_so_far, cache, error, started,
           index_prompt, written, published, llm_call, attempts>>
fnvars == <<arg, ret>>
vars == <<shared, curr, phase, cur_retry, prep_res, exec_res,
          chapters_written_so_far, cache, error, started,
          index_prompt, written, published, llm_call, attempts, arg, ret>>

(***************************************************************************)
(* Bounds of the model.                                                    *)
(***************************************************************************)
MaxFiles == 2       \* files of the corpus
MaxAbstractions == 2 \* abstractions a relationship or an ordering is checked against
MaxStrLen == 2      \* length of a string index entry before its comment
MaxTokens == 4      \* tokens of an oracle response given to the extractor
MaxBodyLen == 5     \* characters of a chapter body whose heading is repaired
MaxLabelLen == 40   \* characters of a relationship label

(***************************************************************************)
(* Python values, as yaml.safe_load produces them.                         *)
(***************************************************************************)
YInt(n) == [t |-> "int", v |-> n]
YBool(b) == [t |-> "bool", b |-> b]
YStr(s) == [t |-> "str", s |-> s]
YFloat(r) == [t |-> "float", r |-> r]
YNull == [t |-> "null"]
YList(xs) == [t |-> "list", items |-> xs]
YMap(m) == [t |-> "map", m |-> m]

\* yaml.YAMLError raised by yaml.safe_load
YamlError == [t |-> "yaml_error"]

\* isinstance(x, int): a bool is an int in Python
IsInt(x) == x.t \in {"int", "bool"}
IsStr(x) == x.t = "str"
IsList(x) == x.t = "list"
IsDict(x) == x.t = "map"

\* the integer a Python int (or bool) stands for
IntVal(x) == IF x.t = "int" THEN x.v ELSE IF x.b THEN 1 ELSE 0

(***************************************************************************)
(* Character strings.                                                      *)
(***************************************************************************)
Digits == {"0", "1", "2", "3", "4", "5", "6", "7", "8", "9"}

DigitVal(c) ==
    CASE c = "0" -> 0 [] c = "1" -> 1 [] c = "2" -> 2 [] c = "3" -> 3
      [] c = "4" -> 4 [] c = "5" -> 5 [] c = "6" -> 6 [] c = "7" -> 7
      [] c = "8" -> 8 [] c = "9" -> 9

DigitChar(d) ==
    CASE d = 0 -> "0" [] d = 1 -> "1" [] d = 2 -> "2" [] d = 3 -> "3"
      [] d = 4 -> "4" [] d = 5 -> "5" [] d = 6 -> "6" [] d = 7 -> "7"
      [] d = 8 -> "8" [] d = 9 -> "9"

IsSpace(c) == c \in {" ", "\n"}

RECURSIVE LStrip(_)
LStrip(s) ==
    IF s # <<>> /\ IsSpace(Head(s)) THEN LStrip(Tail(s)) ELSE s

RECURSIVE RStrip(_)
RStrip(s) ==
    IF s # <<>> /\ IsSpace(s[Len(s)]) THEN RStrip(SubSeq(s, 1, Len(s) - 1)) ELSE s

\* str.strip()
Strip(s) == RStrip(LStrip(s))

\* c in s
Contains(s, c) == \E i \in 1..Len(s) : s[i] = c

\* s.split(c)[0]: the text before the first c, all of s without one
RECURSIVE SplitHead(_, _)
SplitHead(s, c) ==
    IF s = <<>> \/ Head(s) = c THEN <<>> ELSE <<Head(s)>> \o SplitHead(Tail(s), c)

\* s.startswith(p)
StartsWith(s, p) == Len(s) >= Len(p) /\ SubSeq(s, 1, Len(p)) = p

\* the letters of the model's texts and str.lower() and str.isalnum() on them
UpperLetters == {"A", "B", "C", "L"}
LowerLetters == {"a", "b", "c", "d", "e", "i", "l", "m", "x", "y", "z"}

LowerChar(c) ==
    CASE c = "A" -> "a" [] c = "B" -> "b" [] c = "C" -> "c" [] c = "L" -> "l"
      [] OTHER -> c

Lower(s) == [i \in 1..Len(s) |-> LowerChar(s[i])]

IsAlnum(c) == c \in UpperLetters \cup LowerLetters \cup Digits

RECURSIVE DigitsValue(_, _)
DigitsValue(s, acc) ==
    IF s = <<>> THEN acc ELSE DigitsValue(Tail(s), 10 * acc + DigitVal(Head(s)))

RECURSIVE NatChars(_)
NatChars(n) ==
    IF n < 10 THEN <<DigitChar(n)>> ELSE NatChars(n \div 10) \o <<DigitChar(n % 10)>>

\* what int(s) gives for a string: surrounding whitespace ignored, an optional
\* sign, then one or more digits; ValueError otherwise
ParseFail == [ok |-> FALSE]
ParseOk(n) == [ok |-> TRUE, v |-> n]

IntOfChars(s) ==
    LET b == Strip(s)
        signed == b # <<>> /\ Head(b) \in {"-", "+"}
        d == IF signed THEN Tail(b) ELSE b
    IN  IF d = <<>> \/ \E i \in 1..Len(d) : d[i] \notin Digits
        THEN ParseFail
        ELSE IF signed /\ Head(b) = "-"
             THEN ParseOk(0 - DigitsValue(d, 0))
             ELSE ParseOk(DigitsValue(d, 0))

\* str(x) of a scalar
StrOf(x) ==
    CASE x.t = "int" -> IF x.v < 0 THEN <<"-">> \o NatChars(0 - x.v) ELSE NatChars(x.v)
      [] x.t = "bool" -> IF x.b THEN <<"T", "r", "u", "e">> ELSE <<"F", "a", "l", "s", "e">>
      [] x.t = "str" -> x.s
      [] x.t = "float" -> x.r
      [] x.t = "null" -> <<"N", "o", "n", "e">>
      [] OTHER -> <<"{", "}">>

(***************************************************************************)
(* Index entries: the three parsers of the stages.                         *)
(***************************************************************************)
\* IdentifyAbstractions.exec and OrderChapters.exec: an int as it is, a string
\* with a comment cut at the "#", anything else through str()
ParseIndexEntry(entry) ==
    IF IsInt(entry) THEN ParseOk(IntVal(entry))
    ELSE IF IsStr(entry) /\ Contains(entry.s, "#")
         THEN IntOfChars(Strip(SplitHead(entry.s, "#")))
         ELSE IntOfChars(Strip(StrOf(entry)))

\* AnalyzeRelationships.exec: everything through str() and cut at the "#"
ParseEndpoint(entry) == IntOfChars(Strip(SplitHead(StrOf(entry), "#")))

\* a variant of the range check that lets the upper end in
InRangeInclusive(idx, n) == 0 <= idx /\ idx <= n

\* 0 <= idx < n
InRange(idx, n) == 0 <= idx /\ idx < n

(***************************************************************************)
(* Oracle responses that carry YAML.                                       *)
(*                                                                         *)
(* A token is a fence "```", a fence with the tag yaml ("```yaml" and the  *)
(* line break), a fence with the tag yml, or a run of text without a       *)
(* fence.  A run of text has a kind and the value yaml.safe_load gives     *)
(* for it on its own:                                                      *)
(*   "block"  block-style YAML (a sequence or a mapping)                   *)
(*   "flow"   flow-style YAML, which begins with "["                       *)
(*   "prose"  words with no ": " and no "#": one plain scalar, a string    *)
(*   "cut"    a flow sequence that is never closed: a parse error          *)
(* Two runs of text are never adjacent (they would be one run).            *)
(***************************************************************************)
Fence == [k |-> "fence"]
FenceYaml == [k |-> "fence_yaml"]
FenceYml == [k |-> "fence_yml"]
Text(kind, y) == [k |-> "text", kind |-> kind, y |-> y]

IsFence(tok) == tok.k # "text"

\* the positions of the fences of a response
FencePositions(resp) == {i \in 1..Len(resp) : IsFence(resp[i])}

\* yaml.safe_load of a stretch of tokens.  Empty text is None.  A backtick
\* cannot start a token, so text that runs into a fence is a parse error
\* unless a plain scalar is open at the top level, which takes in the
\* fence and the lines after it; a block mapping inside it ends it with
\* "mapping values are not allowed here".
SafeLoad(toks) ==
    IF toks = <<>> THEN YNull
    ELSE IF Len(toks) = 1 /\ toks[1].k = "text" THEN toks[1].y
    ELSE IF toks[1].k = "text" /\ toks[1].kind = "prose"
              /\ \A i \in 2..Len(toks) :
                    toks[i].k = "text" => ~(toks[i].kind = "block" /\ IsDict(toks[i].y))
         THEN YStr(toks[1].y.s \o <<"|">>)
         ELSE YamlError

\* the tokens after position i up to the next fence
RECURSIVE UpToFence(_, _)
UpToFence(resp, i) ==
    IF i > Len(resp) \/ IsFence(resp[i]) THEN <<>>
    ELSE <<resp[i]>> \o UpToFence(resp, i + 1)

\* "```yaml" in response
HasYamlFence(resp) == \E i \in 1..Len(resp) : resp[i].k = "fence_yaml"

\* Strategy 1: response.strip().split("```yaml")[1].split("```")[0].strip()
Strategy1Text(resp) ==
    LET i == CHOOSE i \in 1..Len(resp) :
                 /\ resp[i].k = "fence_yaml"
                 /\ \A j \in 1..(i - 1) : resp[j].k # "fence_yaml"
    IN  UpToFence(resp, i + 1)

\* Strategy 2 applies when response.strip().split("```") has three parts
Strategy2Applies(resp) == Cardinality(FencePositions(resp)) >= 2

\* Strategy 2: parts[1].strip() without a leading "yaml\n" or "yml\n".  The tag
\* of the opening fence is the start of parts[1]; with nothing after it the
\* strip leaves the bare tag, which is not removed and is a plain scalar.
Strategy2Text(resp) ==
    LET i == CHOOSE i \in FencePositions(resp) : \A j \in FencePositions(resp) : i <= j
        body == UpToFence(resp, i + 1)
    IN  IF body = <<>> /\ resp[i].k = "fence_yaml"
        THEN <<Text("prose", YStr(<<"y", "a", "m", "l">>))>>
        ELSE IF body = <<>> /\ resp[i].k = "fence_yml"
             THEN <<Text("prose", YStr(<<"y", "m", "l">>))>>
             ELSE body

\* Strategy 3: response.strip()
Strategy3Text(resp) == resp

\* ValueError("Failed to parse YAML from LLM response...")
ExtractionError == [t |-> "error", e |-> "Failed to parse YAML"]

\* a variant that goes on to the next strategy when a parse fails
parse_yaml_with_fallback(resp) ==
    LET y1 == IF HasYamlFence(resp) THEN SafeLoad(Strategy1Text(resp)) ELSE YamlError
        y2 == IF Strategy2Applies(resp) THEN SafeLoad(Strategy2Text(resp)) ELSE YamlError
        y3 == SafeLoad(Strategy3Text(resp))
    IN  IF y1 # YamlError THEN y1
        ELSE IF y2 # YamlError THEN y2
             ELSE IF y3 # YamlError THEN y3 ELSE ExtractionError

\* parse_yaml_from_llm_response: the text is chosen by the delimiters found,
\* then parsed once
parse_yaml_from_llm_response(resp) ==
    LET s1 == IF HasYamlFence(resp) THEN <<Strategy1Text(resp)>> ELSE <<>>
        s2 == IF s1 = <<>> /\ FencePositions(resp) # {} /\ Strategy2Applies(resp)
              THEN <<Strategy2Text(resp)>> ELSE s1
        yaml_str == IF s2 = <<>> THEN Strategy3Text(resp) ELSE s2[1]
        y == SafeLoad(yaml_str)
    IN  IF y = YamlError THEN ExtractionError ELSE y

(***************************************************************************)
(* WriteChapters.exec: the heading of a chapter body.                      *)
(***************************************************************************)
\* s.split("\n")
RECURSIVE SplitLines(_)
SplitLines(s) ==
    IF ~Contains(s, "\n") THEN <<s>>
    ELSE LET h == SplitHead(s, "\n")
         IN  <<h>> \o SplitLines(SubSeq(s, Len(h) + 2, Len(s)))

\* "\n".join(lines)
RECURSIVE JoinLines(_)
JoinLines(lines) ==
    IF Len(lines) = 1 THEN lines[1]
    ELSE lines[1] \o <<"\n">> \o JoinLines(Tail(lines))

\* f"# {abstraction_name}"
Heading(abstraction_name) == <<"#", " ">> \o abstraction_name

\* the body as WriteChapters.exec returns it: left alone when its stripped text
\* starts with the heading, its first line replaced when that line starts with
\* "#", the heading put before it otherwise
RepairHeading(abstraction_name, chapter_content) ==
    LET actual_heading == Heading(abstraction_name)
        lines == SplitLines(Strip(chapter_content))
    IN  IF StartsWith(Strip(chapter_content), actual_heading) THEN chapter_content
        ELSE IF StartsWith(Strip(lines[1]), <<"#">>)
             THEN JoinLines(<<actual_heading>> \o Tail(lines))
             ELSE actual_heading \o <<"\n", "\n">> \o chapter_content

(***************************************************************************)
(* CombineTutorial.prep: the label of a diagram edge.                      *)
(***************************************************************************)
max_label_len == 30

\* s.replace('"', "").replace("\n", " ")
RECURSIVE Sanitize(_)
Sanitize(s) ==
    IF s = <<>> THEN <<>>
    ELSE IF Head(s) = "\"" THEN Sanitize(Tail(s))
         ELSE IF Head(s) = "\n" THEN <<" ">> \o Sanitize(Tail(s))
              ELSE <<Head(s)>> \o Sanitize(Tail(s))

\* a variant that forgets to leave room for the ellipsis
LabelCutWhole(edge_label) == SubSeq(edge_label, 1, max_label_len)

\* the prefix kept of a label that is too long
LabelCut(edge_label) == SubSeq(edge_label, 1, max_label_len - 3)

\* the label as it is put on the edge
EdgeLabel(label) ==
    LET edge_label == Sanitize(label)
    IN  IF Len(edge_label) > max_label_len
        THEN LabelCut(edge_label) \o <<".", ".", ".">>
        ELSE edge_label

(***************************************************************************)
(* The shared store, the flow and the retry loop of a node.                *)
(***************************************************************************)
\* shared[k] = v
Put(f, k, v) == [x \in DOMAIN f \cup {k} |-> IF x = k THEN v ELSE f[x]]

Ok(v) == [ok |-> TRUE, value |-> v]
Raise(e) == [ok |-> FALSE, e |-> e]

\* the elements of a set of integers in increasing order: sorted(list(set(..)))
RECURSIVE SortedSeq(_)
SortedSeq(S) ==
    IF S = {} THEN <<>>
    ELSE LET m == CHOOSE x \in S : \A y \in S : x <= y
         IN  <<m>> \o SortedSeq(S \ {m})

\* the first position of a sequence of results that raised, 0 without one
FirstRaise(rs) ==
    IF \A i \in 1..Len(rs) : rs[i].ok THEN 0
    ELSE CHOOSE i \in 1..Len(rs) : ~rs[i].ok /\ \A j \in 1..(i - 1) : rs[j].ok

\* a variant of the flow that goes on from the abstractions to the ordering
SuccessorSkipping(node) ==
    CASE node = "FetchRepo" -> "IdentifyAbstractions"
      [] node = "IdentifyAbstractions" -> "OrderChapters"
      [] node = "AnalyzeRelationships" -> "OrderChapters"
      [] node = "OrderChapters" -> "WriteChapters"
      [] node = "WriteChapters" -> "WriteBeginnerFriendlyEpisode"
      [] node = "WriteBeginnerFriendlyEpisode" -> "CombineTutorial"
      [] OTHER -> "done"

\* create_tutorial_flow: the node after each node
Successor(node) ==
    CASE node = "FetchRepo" -> "IdentifyAbstractions"
      [] node = "IdentifyAbstractions" -> "AnalyzeRelationships"
      [] node = "AnalyzeRelationships" -> "OrderChapters"
      [] node = "OrderChapters" -> "WriteChapters"
      [] node = "WriteChapters" -> "WriteBeginnerFriendlyEpisode"
      [] node = "WriteBeginnerFriendlyEpisode" -> "CombineTutorial"
      [] OTHER -> "done"

\* a variant that gives every node the bound of the first four
MaxRetriesUniform(node) == 5

\* create_tutorial_flow: max_retries of each node
MaxRetries(node) ==
    CASE node \in {"IdentifyAbstractions", "AnalyzeRelationships",
                   "OrderChapters", "WriteChapters"} -> 5
      [] node = "WriteBeginnerFriendlyEpisode" -> 3
      [] OTHER -> 1

\* one more attempt of an exec.  The count is a history of the run that the
\* code does not keep; a run that starts below 0 is not counted.
Counted(n) == IF n < 0 THEN n ELSE n + 1

\* prep of a node begins: the flow has reached it
AtPrep(node) == curr = node /\ phase = "prep"
AtExec(node) == curr = node /\ phase = "exec"
AtPost(node) == curr = node /\ phase = "post"

\* a variant that never gives up: the attempt is made again
ExecRaisedForever(e) ==
    /\ cur_retry' = cur_retry
    /\ UNCHANGED <<curr, phase, error>>

\* an attempt of exec raised e: another attempt, or the error leaves the flow
ExecRaised(e) ==
    IF cur_retry = MaxRetries(curr) - 1
    THEN /\ curr' = "failed"
         /\ error' = e
         /\ UNCHANGED <<phase, cur_retry>>
    ELSE /\ cur_retry' = cur_retry + 1
         /\ UNCHANGED <<curr, phase, error>>

\* post of a node is done: the flow goes on to its successor
GoOn ==
    /\ curr' = Successor(curr)
    /\ phase' = "prep"
    /\ cur_retry' = 0
    /\ prep_res' = <<>>
    /\ exec_res' = <<>>

(***************************************************************************)
(* call_llm and its cache.  The text of an oracle reply is YAML-bearing    *)
(* (tokens) or Markdown (characters); a prompt is named by its call site,  *)
(* each call site building one prompt in a run.                            *)
(***************************************************************************)
Yaml(toks) == [form |-> "yaml", toks |-> toks]
Md(chars) == [form |-> "md", chars |-> chars]

\* f"[OpenAI call failed: {e}]": as YAML, a flow sequence of one mapping
FailureMarkerYaml ==
    Yaml(<<Text("flow",
                YList(<<YMap([k \in {"OpenAI call failed"} |-> YStr(<<"e">>)])>>))>>)
FailureMarkerMd == Md(<<"[", "e", "]">>)

\* bool(response_text): the text is not empty
NonEmpty(text) == IF text.form = "yaml" THEN text.toks # <<>> ELSE text.chars # <<>>

\* response_text.startswith("[")
StartsWithBracket(text) ==
    IF text.form = "yaml"
    THEN text.toks # <<>> /\ text.toks[1].k = "text" /\ text.toks[1].kind \in {"flow", "cut"}
    ELSE text.chars # <<>> /\ text.chars[1] = "["

\* a variant that writes every reply that is not empty
CacheAfterAnyReply(prompt, use_cache, reply) ==
    IF use_cache /\ NonEmpty(reply) THEN Put(cache, prompt, reply) ELSE cache

\* the cache file after a reply: written when caching is on and the reply is
\* not empty and does not start with "["
CacheAfter(prompt, use_cache, reply) ==
    IF use_cache /\ NonEmpty(reply) /\ ~StartsWithBracket(reply)
    THEN Put(cache, prompt, reply)
    ELSE cache

\* a variant that writes the reply to the cache file whatever the flag says
call_llm_writing(prompt, use_cache, reply) ==
    IF use_cache /\ prompt \in DOMAIN cache
    THEN [response |-> cache[prompt], cache |-> cache, hit |-> TRUE]
    ELSE [response |-> reply, cache |-> CacheAfter(prompt, TRUE, reply), hit |-> FALSE]

\* call_llm(prompt, use_cache) when the oracle would answer reply: the text
\* returned and the cache file left behind
call_llm(prompt, use_cache, reply) ==
    IF use_cache /\ prompt \in DOMAIN cache
    THEN [response |-> cache[prompt], cache |-> cache, hit |-> TRUE]
    ELSE [response |-> reply, cache |-> CacheAfter(prompt, use_cache, reply), hit |-> FALSE]

\* the record of a call: what it was asked, with which flag, and whether the
\* cache answered it
NoCall == [prompt |-> <<>>]
Called(prompt, use_cache, attempt, call) ==
    [prompt |-> prompt, use_cache |-> use_cache, attempt |-> attempt, hit |-> call.hit]

\* a variant that passes the flag of the run on every attempt
OnEveryAttempt(use_cache, retry) == use_cache

\* use_cache=(use_cache and self.cur_retry == 0)
FirstAttemptOnly(use_cache, retry) == use_cache /\ retry = 0

\* what the oracle may answer when asked for the repository type
TypeReplies == {Md(<<"L", "i", "b", "\n">>), FailureMarkerMd}

\* shared.get(key, default)
Get(key, default) == IF key \in DOMAIN shared THEN shared[key] ELSE default

\* get_common_context(shared)["use_cache"]
UseCache == Get("use_cache", TRUE)

\* detect_repository_type: asked once, with the cache always on, and kept
DetectRepositoryType(reply) ==
    IF "repository_type" \in DOMAIN shared
    THEN [shared |-> shared, cache |-> cache, llm_call |-> llm_call]
    ELSE LET call == call_llm(<<"detect_repository_type", 0>>, TRUE, reply)
         IN  [shared |-> Put(shared, "repository_type", Lower(Strip(call.response.chars))),
              cache |-> call.cache,
              llm_call |-> Called(<<"detect_repository_type", 0>>, TRUE, 0, call)]

(***************************************************************************)
(* FetchRepo                                                               *)
(***************************************************************************)
FetchRepoPrep ==
    /\ AtPrep("FetchRepo")
    /\ started' = Append(started, curr)
    /\ phase' = "exec"
    /\ prep_res' = [use_relative_paths |-> TRUE]
    /\ UNCHANGED <<shared, curr, cur_retry, exec_res, chapters_written_so_far, cache,
                   error, index_prompt, written, published, llm_call, attempts, arg, ret>>

\* the crawl returns n files; none is an error
FetchRepoExec ==
    /\ AtExec("FetchRepo")
    /\ \E n \in 0..MaxFiles :
          IF n = 0
          THEN ExecRaised("Failed to fetch files") /\ UNCHANGED exec_res
          ELSE /\ exec_res' = [files |-> [i \in 1..n |-> i - 1]]
               /\ phase' = "post"
               /\ UNCHANGED <<curr, cur_retry, error>>
    /\ attempts' = Counted(attempts)
    /\ UNCHANGED <<shared, prep_res, chapters_written_so_far, cache, started,
                   index_prompt, written, published, llm_call, arg, ret>>

FetchRepoPost ==
    /\ AtPost("FetchRepo")
    /\ shared' = Put(shared, "files", exec_res.files)
    /\ GoOn
    /\ UNCHANGED <<chapters_written_so_far, cache, error, started,
                   index_prompt, written, published, llm_call, attempts, arg, ret>>

(***************************************************************************)
(* IdentifyAbstractions                                                    *)
(***************************************************************************)
\* a variant that keeps the entries in range and drops the others
ValidatedIndicesDropping(file_indices, file_count) ==
    LET parsed == [i \in 1..Len(file_indices) |-> ParseIndexEntry(file_indices[i])]
    IN  IF \A i \in 1..Len(parsed) : parsed[i].ok
        THEN Ok(SortedSeq({parsed[i].v : i \in 1..Len(parsed)}
                          \cap {v \in 0..(file_count + 1) : InRange(v, file_count)}))
        ELSE Raise("Could not parse index from entry")

\* a variant that keeps the indices as they come, repeats included
ValidatedIndicesAsListed(file_indices, file_count) ==
    LET parsed == [i \in 1..Len(file_indices) |-> ParseIndexEntry(file_indices[i])]
    IN  IF \A i \in 1..Len(parsed) : parsed[i].ok /\ InRange(parsed[i].v, file_count)
        THEN Ok([i \in 1..Len(parsed) |-> parsed[i].v])
        ELSE Raise("Could not parse index from entry")

\* the indices of one item: every entry parsed and in [0, file_count), any
\* other entry raising "Could not parse index from entry"
ValidatedIndices(file_indices, file_count) ==
    LET parsed == [i \in 1..Len(file_indices) |-> ParseIndexEntry(file_indices[i])]
    IN  IF \A i \in 1..Len(parsed) : parsed[i].ok /\ InRange(parsed[i].v, file_count)
        THEN Ok(SortedSeq({parsed[i].v : i \in 1..Len(parsed)}))
        ELSE Raise("Could not parse index from entry")

\* one item of the list: its checks in the order of the code
ValidatedAbstraction(item, file_count) ==
    IF ~IsDict(item) \/ ~({"name", "description", "file_indices"} \subseteq DOMAIN item.m)
    THEN Raise("Missing keys in abstraction item")
    ELSE IF ~IsStr(item.m["name"]) THEN Raise("Name is not a string")
    ELSE IF ~IsStr(item.m["description"]) THEN Raise("Description is not a string")
    ELSE IF ~IsList(item.m["file_indices"]) THEN Raise("file_indices is not a list")
    ELSE LET idx == ValidatedIndices(item.m["file_indices"].items, file_count)
         IN  IF ~idx.ok THEN idx
             ELSE Ok([name |-> item.m["name"].s,
                      description |-> item.m["description"].s,
                      files |-> idx.value])

\* a variant that returns the items validated before the first one that fails
IdentifyAbstractionsValidatePrefix(response, file_count) ==
    LET abstractions == parse_yaml_from_llm_response(response.toks)
    IN  IF abstractions = ExtractionError THEN Raise(ExtractionError.e)
        ELSE IF ~IsList(abstractions) THEN Raise("LLM Output is not a list")
        ELSE LET rs == [i \in 1..Len(abstractions.items) |->
                           ValidatedAbstraction(abstractions.items[i], file_count)]
                 n == IF FirstRaise(rs) # 0 THEN FirstRaise(rs) - 1 ELSE Len(rs)
             IN  Ok([i \in 1..n |-> rs[i].value])

\* IdentifyAbstractions.exec after call_llm: the validation of the response
IdentifyAbstractionsValidate(response, file_count) ==
    LET abstractions == parse_yaml_from_llm_response(response.toks)
    IN  IF abstractions = ExtractionError THEN Raise(ExtractionError.e)
        ELSE IF ~IsList(abstractions) THEN Raise("LLM Output is not a list")
        ELSE LET rs == [i \in 1..Len(abstractions.items) |->
                           ValidatedAbstraction(abstractions.items[i], file_count)]
             IN  IF FirstRaise(rs) # 0 THEN rs[FirstRaise(rs)]
                 ELSE Ok([i \in 1..Len(rs) |-> rs[i].value])

\* shared.get("max_abstraction_num", 20): the number goes into the prompt
\* and into prep_res, and exec reads it for the prompt alone
default_max_abstraction_num == 20

IdentifyAbstractionsPrep ==
    /\ AtPrep("IdentifyAbstractions")
    /\ started' = Append(started, curr)
    /\ \E reply \in TypeReplies :
          LET d == DetectRepositoryType(reply)
          IN  /\ shared' = d.shared
              /\ cache' = d.cache
              /\ llm_call' = d.llm_call
    /\ prep_res' = [file_count |-> Len(shared["files"]), use_cache |-> UseCache,
                    max_abstraction_num |-> Get("max_abstraction_num",
                                                default_max_abstraction_num)]
    /\ phase' = "exec"
    /\ UNCHANGED <<curr, cur_retry, exec_res, chapters_written_so_far, error,
                   index_prompt, written, published, attempts, arg, ret>>

IdentifyAbstractionsExec(Replies) ==
    /\ AtExec("IdentifyAbstractions")
    /\ \E reply \in Replies :
          LET flag == FirstAttemptOnly(prep_res.use_cache, cur_retry)
              call == call_llm(<<curr, 0>>, flag, reply)
              res == IdentifyAbstractionsValidate(call.response, prep_res.file_count)
          IN  /\ cache' = call.cache
              /\ llm_call' = Called(<<curr, 0>>, flag, cur_retry, call)
              /\ IF res.ok
                 THEN /\ exec_res' = res.value
                      /\ phase' = "post"
                      /\ UNCHANGED <<curr, cur_retry, error>>
                 ELSE ExecRaised(res.e) /\ UNCHANGED exec_res
    /\ attempts' = Counted(attempts)
    /\ UNCHANGED <<shared, prep_res, chapters_written_so_far, started,
                   index_prompt, written, published, arg, ret>>

IdentifyAbstractionsPost ==
    /\ AtPost("IdentifyAbstractions")
    /\ shared' = Put(shared, "abstractions", exec_res)
    /\ GoOn
    /\ UNCHANGED <<chapters_written_so_far, cache, error, started,
                   index_prompt, written, published, llm_call, attempts, arg, ret>>

(***************************************************************************)
(* AnalyzeRelationships                                                    *)
(***************************************************************************)
\* one entry of "relationships": its checks in the order of the code
ValidatedRelationship(rel, num_abstractions) ==
    IF ~IsDict(rel)
         \/ ~({"from_abstraction", "to_abstraction", "label"} \subseteq DOMAIN rel.m)
    THEN Raise("Missing keys in relationship item")
    ELSE IF ~IsStr(rel.m["label"]) THEN Raise("Relationship label is not a string")
    ELSE LET from_idx == ParseEndpoint(rel.m["from_abstraction"])
             to_idx == ParseEndpoint(rel.m["to_abstraction"])
         IN  IF /\ from_idx.ok /\ to_idx.ok
                /\ InRange(from_idx.v, num_abstractions)
                /\ InRange(to_idx.v, num_abstractions)
             THEN Ok([from |-> from_idx.v, to |-> to_idx.v, label |-> rel.m["label"].s])
             ELSE Raise("Could not parse indices from relationship")

\* a variant that does not look at the type of the summary
AnalyzeRelationshipsValidateAnySummary(response, num_abstractions) ==
    LET relationships_data == parse_yaml_from_llm_response(response.toks)
    IN  IF relationships_data = ExtractionError THEN Raise(ExtractionError.e)
        ELSE IF ~IsDict(relationships_data)
                  \/ ~({"summary", "relationships"} \subseteq DOMAIN relationships_data.m)
        THEN Raise("LLM output is not a dict or missing keys")
        ELSE IF ~IsList(relationships_data.m["relationships"])
        THEN Raise("relationships is not a list")
        ELSE LET rels == relationships_data.m["relationships"].items
                 rs == [i \in 1..Len(rels) |-> ValidatedRelationship(rels[i], num_abstractions)]
             IN  IF FirstRaise(rs) # 0 THEN rs[FirstRaise(rs)]
                 ELSE Ok([summary |-> relationships_data.m["summary"],
                          details |-> [i \in 1..Len(rs) |-> rs[i].value]])

\* AnalyzeRelationships.exec after call_llm: the validation of the response
AnalyzeRelationshipsValidate(response, num_abstractions) ==
    LET relationships_data == parse_yaml_from_llm_response(response.toks)
    IN  IF relationships_data = ExtractionError THEN Raise(ExtractionError.e)
        ELSE IF ~IsDict(relationships_data)
                  \/ ~({"summary", "relationships"} \subseteq DOMAIN relationships_data.m)
        THEN Raise("LLM output is not a dict or missing keys")
        ELSE IF ~IsStr(relationships_data.m["summary"]) THEN Raise("summary is not a string")
        ELSE IF ~IsList(relationships_data.m["relationships"])
        THEN Raise("relationships is not a list")
        ELSE LET rels == relationships_data.m["relationships"].items
                 rs == [i \in 1..Len(rels) |-> ValidatedRelationship(rels[i], num_abstractions)]
             IN  IF FirstRaise(rs) # 0 THEN rs[FirstRaise(rs)]
                 ELSE Ok([summary |-> relationships_data.m["summary"].s,
                          details |-> [i \in 1..Len(rs) |-> rs[i].value]])

\* prep reads the files of every abstraction by index (get_content_for_indices)
AnalyzeRelationshipsPrep ==
    /\ AtPrep("AnalyzeRelationships")
    /\ started' = Append(started, curr)
    /\ \E reply \in TypeReplies :
          LET d == DetectRepositoryType(reply)
          IN  /\ shared' = d.shared
              /\ cache' = d.cache
              /\ llm_call' = d.llm_call
    /\ prep_res' = [num_abstractions |-> Len(shared["abstractions"]), use_cache |-> UseCache]
    /\ phase' = "exec"
    /\ UNCHANGED <<curr, cur_retry, exec_res, chapters_written_so_far,
                   error, index_prompt, written, published, attempts, arg, ret>>

AnalyzeRelationshipsExec(Replies) ==
    /\ AtExec("AnalyzeRelationships")
    /\ \E reply \in Replies :
          LET flag == FirstAttemptOnly(prep_res.use_cache, cur_retry)
              call == call_llm(<<curr, 0>>, flag, reply)
              res == AnalyzeRelationshipsValidate(call.response, prep_res.num_abstractions)
          IN  /\ cache' = call.cache
              /\ llm_call' = Called(<<curr, 0>>, flag, cur_retry, call)
              /\ IF res.ok
                 THEN /\ exec_res' = res.value
                      /\ phase' = "post"
                      /\ UNCHANGED <<curr, cur_retry, error>>
                 ELSE ExecRaised(res.e) /\ UNCHANGED exec_res
    /\ attempts' = Counted(attempts)
    /\ UNCHANGED <<shared, prep_res, chapters_written_so_far, started,
                   index_prompt, written, published, arg, ret>>

AnalyzeRelationshipsPost ==
    /\ AtPost("AnalyzeRelationships")
    /\ shared' = Put(shared, "relationships", exec_res)
    /\ GoOn
    /\ UNCHANGED <<chapters_written_so_far, cache, error, started,
                   index_prompt, written, published, llm_call, attempts, arg, ret>>

(***************************************************************************)
(* OrderChapters                                                           *)
(***************************************************************************)
\* abstractions[i] of a Python list: a negative i counts from the end
ListIndexOk(i, n) == 0 - n <= i /\ i < n

\* the entries of the ordered list one after the other: an entry raises when
\* it does not parse, is out of range or was seen before
OrderedEntryOk(parsed, i, num_abstractions) ==
    /\ parsed[i].ok
    /\ InRange(parsed[i].v, num_abstractions)
    /\ \A j \in 1..(i - 1) : parsed[j].v # parsed[i].v

\* a variant of the walk over the entries without the set of seen indices
OrderedIndicesUnseen(entries, num_abstractions) ==
    LET parsed == [i \in 1..Len(entries) |-> ParseIndexEntry(entries[i])]
    IN  IF \E i \in 1..Len(parsed) :
              ~(parsed[i].ok /\ InRange(parsed[i].v, num_abstractions))
        THEN Raise("Could not parse index from ordered list entry")
        ELSE IF Len(parsed) # num_abstractions
        THEN Raise("Ordered list length does not match number of abstractions")
        ELSE Ok([i \in 1..Len(parsed) |-> parsed[i].v])

OrderedIndices(entries, num_abstractions) ==
    LET parsed == [i \in 1..Len(entries) |-> ParseIndexEntry(entries[i])]
        bad == {i \in 1..Len(parsed) :
                   /\ \A j \in 1..(i - 1) : OrderedEntryOk(parsed, j, num_abstractions)
                   /\ ~OrderedEntryOk(parsed, i, num_abstractions)}
    IN  IF bad # {} THEN Raise("Could not parse index from ordered list entry")
        ELSE IF Len(parsed) # num_abstractions
        THEN Raise("Ordered list length does not match number of abstractions")
        ELSE Ok([i \in 1..Len(parsed) |-> parsed[i].v])

\* OrderChapters.exec after call_llm: the validation of the response
OrderChaptersValidate(response, num_abstractions) ==
    LET ordered_indices_raw == parse_yaml_from_llm_response(response.toks)
    IN  IF ordered_indices_raw = ExtractionError THEN Raise(ExtractionError.e)
        ELSE IF ~IsList(ordered_indices_raw) THEN Raise("LLM output is not a list")
        ELSE OrderedIndices(ordered_indices_raw.items, num_abstractions)

\* prep names the two ends of every relationship: abstractions[rel["from"]]
OrderChaptersPrep ==
    /\ AtPrep("OrderChapters")
    /\ started' = Append(started, curr)
    /\ LET abstractions == shared["abstractions"]
           details == shared["relationships"].details
       IN  IF \A i \in 1..Len(details) :
                 /\ ListIndexOk(details[i].from, Len(abstractions))
                 /\ ListIndexOk(details[i].to, Len(abstractions))
           THEN /\ prep_res' = [num_abstractions |-> Len(abstractions),
                                use_cache |-> UseCache]
                /\ phase' = "exec"
                /\ UNCHANGED <<curr, error>>
           ELSE /\ curr' = "failed"
                /\ error' = "list index out of range"
                /\ UNCHANGED <<prep_res, phase>>
    /\ UNCHANGED <<shared, cur_retry, exec_res, chapters_written_so_far, cache,
                   index_prompt, written, published, llm_call, attempts, arg, ret>>

OrderChaptersExec(Replies) ==
    /\ AtExec("OrderChapters")
    /\ \E reply \in Replies :
          LET flag == FirstAttemptOnly(prep_res.use_cache, cur_retry)
              call == call_llm(<<curr, 0>>, flag, reply)
              res == OrderChaptersValidate(call.response, prep_res.num_abstractions)
          IN  /\ cache' = call.cache
              /\ llm_call' = Called(<<curr, 0>>, flag, cur_retry, call)
              /\ IF res.ok
                 THEN /\ exec_res' = res.value
                      /\ phase' = "post"
                      /\ UNCHANGED <<curr, cur_retry, error>>
                 ELSE ExecRaised(res.e) /\ UNCHANGED exec_res
    /\ attempts' = Counted(attempts)
    /\ UNCHANGED <<shared, prep_res, chapters_written_so_far, started,
                   index_prompt, written, published, arg, ret>>

OrderChaptersPost ==
    /\ AtPost("OrderChapters")
    /\ shared' = Put(shared, "chapter_order", exec_res)
    /\ GoOn
    /\ UNCHANGED <<chapters_written_so_far, cache, error, started,
                   index_prompt, written, published, llm_call, attempts, arg, ret>>

(***************************************************************************)
(* WriteChapters (a BatchNode: exec runs once for every item of prep)      *)
(***************************************************************************)
\* "".join(c if c.isalnum() else "_" for c in name).lower()
SafeName(name) == Lower([i \in 1..Len(name) |-> IF IsAlnum(name[i]) THEN name[i] ELSE "_"])

\* f"{n:02d}"
TwoDigits(n) == IF n < 10 THEN <<"0">> \o NatChars(n) ELSE NatChars(n)

\* f"{i+1:02d}_{safe_name}.md"
ChapterFilename(chapter_num, name) ==
    TwoDigits(chapter_num) \o <<"_">> \o SafeName(name) \o <<".", "m", "d">>

\* the positions of chapter_order that hold an index of the abstraction list
ValidPositions(chapter_order, abstractions) ==
    SortedSeq({i \in 1..Len(chapter_order) : InRange(chapter_order[i], Len(abstractions))})

\* a variant that takes the abstractions in the order of their list
ItemsInListOrder(chapter_order, abstractions, use_cache) ==
    [k \in 1..Len(abstractions) |->
        [chapter_num |-> k,
         abstraction_index |-> k - 1,
         abstraction_details |-> abstractions[k],
         filename |-> ChapterFilename(k, abstractions[k].name),
         use_cache |-> use_cache]]

\* items_to_process
ItemsToProcess(chapter_order, abstractions, use_cache) ==
    LET pos == ValidPositions(chapter_order, abstractions)
    IN  [k \in 1..Len(pos) |->
            LET abstraction_index == chapter_order[pos[k]]
                details == abstractions[abstraction_index + 1]
            IN  [chapter_num |-> pos[k],
                 abstraction_index |-> abstraction_index,
                 abstraction_details |-> details,
                 filename |-> ChapterFilename(pos[k], details.name),
                 use_cache |-> use_cache]]

\* "\n---\n".join(chapters): the separator is one element of the text
RECURSIVE previous_chapters_summary(_)
previous_chapters_summary(chapters) ==
    IF chapters = <<>> THEN <<>>
    ELSE IF Len(chapters) = 1 THEN chapters[1]
    ELSE chapters[1] \o <<"\n---\n">> \o previous_chapters_summary(Tail(chapters))

\* a variant that forgets the body
NotAppended(chapters, chapter_content) == chapters

\* self.chapters_written_so_far.append(chapter_content)
Appended(chapters, chapter_content) == Append(chapters, chapter_content)

WriteChaptersPrep ==
    /\ AtPrep("WriteChapters")
    /\ started' = Append(started, curr)
    /\ chapters_written_so_far' = <<>>
    /\ LET items == ItemsToProcess(shared["chapter_order"], shared["abstractions"], UseCache)
       IN  /\ prep_res' = items
           /\ phase' = IF items = <<>> THEN "post" ELSE "exec"
    /\ UNCHANGED <<shared, curr, cur_retry, exec_res, cache, error,
                   index_prompt, written, published, llm_call, attempts, arg, ret>>

\* exec of the next item; after the last one the list of results goes to post
WriteChaptersExec(Replies) ==
    /\ AtExec("WriteChapters")
    /\ \E reply \in Replies :
          LET item == prep_res[Len(exec_res) + 1]
              prompt == <<curr, item.chapter_num,
                          previous_chapters_summary(chapters_written_so_far)>>
              flag == FirstAttemptOnly(item.use_cache, cur_retry)
              call == call_llm(prompt, flag, reply)
              chapter_content == RepairHeading(item.abstraction_details.name,
                                               call.response.chars)
          IN  /\ cache' = call.cache
              /\ llm_call' = Called(prompt, flag, cur_retry, call)
              /\ chapters_written_so_far' = Appended(chapters_written_so_far, chapter_content)
              /\ exec_res' = Append(exec_res, chapter_content)
              /\ phase' = IF Len(exec_res) + 1 = Len(prep_res) THEN "post" ELSE "exec"
    /\ attempts' = Counted(attempts)
    /\ UNCHANGED <<shared, curr, cur_retry, prep_res, error, started,
                   index_prompt, written, published, arg, ret>>

\* a variant that empties the chapter order once the chapters are stored
WriteChaptersPostClearingOrder ==
    /\ AtPost("WriteChapters")
    /\ shared' = Put(Put(shared, "chapters", exec_res), "chapter_order", <<>>)
    /\ chapters_written_so_far' = <<>>
    /\ GoOn
    /\ UNCHANGED <<cache, error, started, index_prompt, written, published, llm_call, attempts, arg, ret>>

WriteChaptersPost ==
    /\ AtPost("WriteChapters")
    /\ shared' = Put(shared, "chapters", exec_res)
    /\ chapters_written_so_far' = <<>>
    /\ GoOn
    /\ UNCHANGED <<cache, error, started, index_prompt, written, published, llm_call, attempts, arg, ret>>

(***************************************************************************)
(* WriteBeginnerFriendlyEpisode                                            *)
(***************************************************************************)
WriteBeginnerFriendlyEpisodePrep ==
    /\ AtPrep("WriteBeginnerFriendlyEpisode")
    /\ started' = Append(started, curr)
    /\ prep_res' = [use_cache |-> UseCache, chapters |-> shared["chapters"]]
    /\ phase' = "exec"
    /\ UNCHANGED <<shared, curr, cur_retry, exec_res, chapters_written_so_far, cache,
                   error, index_prompt, written, published, llm_call, attempts, arg, ret>>

WriteBeginnerFriendlyEpisodeExec(Replies) ==
    /\ AtExec("WriteBeginnerFriendlyEpisode")
    /\ \E reply \in Replies :
          LET flag == FirstAttemptOnly(prep_res.use_cache, cur_retry)
              call == call_llm(<<curr, 0>>, flag, reply)
          IN  /\ cache' = call.cache
              /\ llm_call' = Called(<<curr, 0>>, flag, cur_retry, call)
              /\ exec_res' = call.response.chars
    /\ phase' = "post"
    /\ attempts' = Counted(attempts)
    /\ UNCHANGED <<shared, curr, cur_retry, prep_res, chapters_written_so_far, error,
                   started, index_prompt, written, published, arg, ret>>

WriteBeginnerFriendlyEpisodePost ==
    /\ AtPost("WriteBeginnerFriendlyEpisode")
    /\ shared' = Put(shared, "beginner_friendly_episode", exec_res)
    /\ GoOn
    /\ UNCHANGED <<chapters_written_so_far, cache, error, started,
                   index_prompt, written, published, llm_call, attempts, arg, ret>>

(***************************************************************************)
(* CombineTutorial                                                         *)
(***************************************************************************)
\* the edges of the diagram
MermaidEdges(details) ==
    [i \in 1..Len(details) |->
        [from_node_id |-> details[i].from,
         to_node_id |-> details[i].to,
         edge_label |-> EdgeLabel(details[i].label)]]

\* a variant that keeps the case of the name
CombineFilenameKeepingCase(chapter_num, abstraction_name) ==
    TwoDigits(chapter_num) \o <<"_">>
        \o [i \in 1..Len(abstraction_name) |->
               IF IsAlnum(abstraction_name[i]) THEN abstraction_name[i] ELSE "_"]
        \o <<".", "m", "d">>

\* CombineTutorial.prep builds the filename anew, by the same expressions:
\* safe_name, then f"{i+1:02d}_{safe_name}.md"
CombineFilename(chapter_num, abstraction_name) ==
    TwoDigits(chapter_num) \o <<"_">> \o SafeName(abstraction_name) \o <<".", "m", "d">>

\* the positions of chapter_order that get a file: the index is one of the
\* abstraction list and there is content for the position
FilePositions(chapter_order, abstractions, chapters_content) ==
    SortedSeq({i \in 1..Len(chapter_order) :
                  InRange(chapter_order[i], Len(abstractions)) /\ i <= Len(chapters_content)})

OverviewTitle == <<"B", "e", "g", "i", "n", "n", "e", "r">>
OverviewFilename == <<"b", "e", "g", "i", "n", "n", "e", "r", ".", "m", "d">>
OverviewDescription == <<"o", "v", "e", "r", "v", "i", "e", "w">>

\* a variant that takes the title of entry i from abstraction i
ChapterLinksByPosition(chapter_order, abstractions, chapters_content) ==
    LET pos == FilePositions(chapter_order, abstractions, chapters_content)
    IN  [k \in 1..Len(pos) |->
            [number |-> pos[k],
             title |-> abstractions[pos[k]].name,
             filename |-> ChapterFilename(pos[k], abstractions[pos[k]].name),
             description |-> abstractions[pos[k]].description]]
        \o <<[number |-> Len(pos) + 1, title |-> OverviewTitle,
              filename |-> OverviewFilename, description |-> OverviewDescription]>>

\* chapter_links: one entry for every position with a file, then the overview
ChapterLinks(chapter_order, abstractions, chapters_content) ==
    LET pos == FilePositions(chapter_order, abstractions, chapters_content)
    IN  [k \in 1..Len(pos) |->
            LET abstraction == abstractions[chapter_order[pos[k]] + 1]
            IN  [number |-> pos[k],
                 title |-> abstraction.name,
                 filename |-> CombineFilename(pos[k], abstraction.name),
                 description |-> abstraction.description]]
        \o <<[number |-> Len(pos) + 1, title |-> OverviewTitle,
              filename |-> OverviewFilename, description |-> OverviewDescription]>>

\* chapter_files
ChapterFiles(chapter_order, abstractions, chapters_content) ==
    LET pos == FilePositions(chapter_order, abstractions, chapters_content)
    IN  [k \in 1..Len(pos) |->
            [filename |-> CombineFilename(pos[k],
                                          abstractions[chapter_order[pos[k]] + 1].name),
             content |-> chapters_content[pos[k]]]]

\* the clean-up of the landing document: an opening fence with the tag
\* markdown, then an opening fence, then a closing fence are cut, and the
\* rest is stripped.  A fence is one element of the text here.
StripFences(index_content) ==
    LET a == IF index_content # <<>> /\ Head(index_content) = "fence_markdown"
             THEN Tail(index_content) ELSE index_content
        b == IF a # <<>> /\ Head(a) = "fence" THEN Tail(a) ELSE a
        c == IF b # <<>> /\ b[Len(b)] = "fence" THEN SubSeq(b, 1, Len(b) - 1) ELSE b
    IN  Strip(c)

CombineTutorialPrep(Replies) ==
    /\ AtPrep("CombineTutorial")
    /\ started' = Append(started, curr)
    /\ \E type_reply \in TypeReplies, reply \in Replies :
          LET d == DetectRepositoryType(type_reply)
              chapter_order == shared["chapter_order"]
              abstractions == shared["abstractions"]
              chapters_content == shared["chapters"]
              chapter_links == ChapterLinks(chapter_order, abstractions, chapters_content)
              flag == Get("use_cache", TRUE)
              call == call_llm(<<curr, 0>>, flag, reply)
          IN  /\ shared' = d.shared
              /\ cache' = call.cache
              /\ llm_call' = Called(<<curr, 0>>, flag, 0, call)
              /\ index_prompt' =
                    [mermaid_edges |-> MermaidEdges(shared["relationships"].details),
                     chapter_links |-> chapter_links]
              /\ prep_res' =
                    [index_content |-> StripFences(call.response.chars),
                     chapter_files |-> ChapterFiles(chapter_order, abstractions,
                                                    chapters_content),
                     beginner_friendly_episode |-> Get("beginner_friendly_episode", <<>>),
                     publish_to_nostr |-> Get("publish_to_nostr", FALSE)]
    /\ phase' = "exec"
    /\ UNCHANGED <<curr, cur_retry, exec_res, chapters_written_so_far, error,
                   written, published, attempts, arg, ret>>

Watermark == "\n\nWiki generated by: CoDoC"
IndexFilename == <<"i", "n", "d", "e", "x", ".", "m", "d">>

\* the files exec writes, in the order it writes them, each with its title
Artifacts(res) ==
    <<[filename |-> IndexFilename, title |-> <<"i", "n", "d", "e", "x">>,
       content |-> res.index_content \o <<Watermark>>]>>
    \o [k \in 1..Len(res.chapter_files) |->
           [filename |-> res.chapter_files[k].filename,
            title |-> res.chapter_files[k].filename,
            content |-> res.chapter_files[k].content \o <<Watermark>>]]
    \o (IF res.beginner_friendly_episode # <<>>
        THEN <<[filename |-> OverviewFilename,
                title |-> SubSeq(OverviewFilename, 1, Len(OverviewFilename) - 3),
                content |-> res.beginner_friendly_episode \o <<Watermark>>]>>
        ELSE <<>>)

\* exec publishes each file, when asked to, before it writes it.  The
\* publisher does nothing without a key; with one it may raise, at file
\* raised_at (0: at none), and the files before that one stay written.
CombineTutorialExec ==
    /\ AtExec("CombineTutorial")
    /\ LET files == Artifacts(prep_res)
       IN  \E key_set \in BOOLEAN, raised_at \in 0..Len(files) :
              /\ (raised_at # 0) => (prep_res.publish_to_nostr /\ key_set)
              /\ LET n == IF raised_at = 0 THEN Len(files) ELSE raised_at - 1
                 IN  /\ written' = [k \in 1..n |->
                                       [filename |-> files[k].filename,
                                        content |-> files[k].content]]
                     /\ published' = IF prep_res.publish_to_nostr /\ key_set
                                     THEN [k \in 1..n |-> files[k].title]
                                     ELSE <<>>
              /\ IF raised_at = 0
                 THEN /\ exec_res' = "output"
                      /\ phase' = "post"
                      /\ UNCHANGED <<curr, cur_retry, error>>
                 ELSE ExecRaised("publish failed") /\ UNCHANGED exec_res
    /\ attempts' = Counted(attempts)
    /\ UNCHANGED <<shared, prep_res, chapters_written_so_far, cache, started,
                   index_prompt, llm_call, arg, ret>>

CombineTutorialPost ==
    /\ AtPost("CombineTutorial")
    /\ shared' = Put(shared, "final_output_dir", exec_res)
    /\ GoOn
    /\ UNCHANGED <<chapters_written_so_far, cache, error, started,
                   index_prompt, written, published, llm_call, attempts, arg, ret>>

(***************************************************************************)
(* The run of the flow.  The oracle answers every call with one of a few   *)
(* texts that make each outcome of each stage happen.                      *)
(***************************************************************************)
FencedYaml(y) == <<FenceYaml, Text("block", y), Fence>>
Prose == Yaml(<<Text("prose", YStr(<<"p">>))>>)

NameA == <<"A", " ", "b">>
NameC == <<"C">>

AbstractionItem(name, file_indices) ==
    YMap([name |-> YStr(name),
          description |-> YStr(<<"d", " ">> \o name),
          file_indices |-> YList(file_indices)])

AbstractionReplies ==
    { Yaml(FencedYaml(YList(<<AbstractionItem(NameA, <<YInt(0)>>)>>))),
      Yaml(FencedYaml(YList(<<AbstractionItem(NameA, <<YInt(0)>>),
                              AbstractionItem(NameC, <<YStr(<<"1", " ", "#", " ", "f">>),
                                                       YInt(0), YInt(1)>>)>>))),
      Yaml(FencedYaml(YList(<<AbstractionItem(NameA, <<YInt(0), YInt(MaxFiles)>>)>>))),
      Prose,
      FailureMarkerYaml }

LongLabel == [i \in 1..(max_label_len + 1) |-> "l"]

RelationshipItem(from_abstraction, to_abstraction, label) ==
    YMap([from_abstraction |-> from_abstraction,
          to_abstraction |-> to_abstraction,
          label |-> YStr(label)])

RelationshipsData(relationships) ==
    Yaml(FencedYaml(YMap([summary |-> YStr(<<"s">>), relationships |-> YList(relationships)])))

RelationshipReplies ==
    { RelationshipsData(<<RelationshipItem(YInt(0), YInt(0), <<"u">>)>>),
      RelationshipsData(<<RelationshipItem(YStr(<<"1", " ", "#", " ", "C">>), YInt(0),
                                           LongLabel)>>),
      RelationshipsData(<<RelationshipItem(YInt(0), YInt(2), <<"u">>)>>),
      RelationshipsData(<<RelationshipItem(YInt(0 - 1), YInt(0), <<"u">>)>>),
      Prose }

OrderReplies ==
    { Yaml(FencedYaml(YList(<<YInt(0)>>))),
      Yaml(FencedYaml(YList(<<YInt(0), YInt(1)>>))),
      Yaml(FencedYaml(YList(<<YStr(<<"1", " ", "#", " ", "C">>), YInt(0)>>))),
      Yaml(FencedYaml(YList(<<YInt(0), YInt(0)>>))),
      Yaml(FencedYaml(YList(<<YInt(0), YInt(2)>>))),
      Prose }

ChapterReplies ==
    { Md(Heading(NameA) \o <<"\n", "x">>), FailureMarkerMd }

EpisodeReplies == { Md(<<"e">>), Md(<<>>), FailureMarkerMd }

IndexReplies == { Md(<<"fence_markdown", "\n", "i", "\n", "fence">>), Md(<<"i">>) }

NoArg == [fn |-> "none"]
NoRet == [fn |-> "none"]

\* the shared store at the start of a run: the two switches the nodes read
\* with shared.get set either way
Init ==
    /\ \E use_cache \in BOOLEAN, publish_to_nostr \in BOOLEAN :
          shared = [use_cache |-> use_cache, publish_to_nostr |-> publish_to_nostr]
    /\ curr = "FetchRepo"
    /\ phase = "prep"
    /\ cur_retry = 0
    /\ prep_res = <<>>
    /\ exec_res = <<>>
    /\ chapters_written_so_far = <<>>
    /\ cache = <<>>
    /\ error = "none"
    /\ started = <<>>
    /\ index_prompt = <<>>
    /\ written = <<>>
    /\ published = <<>>
    /\ llm_call = NoCall
    /\ attempts = 0 - 1
    /\ arg = NoArg
    /\ ret = NoRet

Next ==
    \/ FetchRepoPrep
    \/ FetchRepoExec
    \/ FetchRepoPost
    \/ IdentifyAbstractionsPrep
    \/ IdentifyAbstractionsExec(AbstractionReplies)
    \/ IdentifyAbstractionsPost
    \/ AnalyzeRelationshipsPrep
    \/ AnalyzeRelationshipsExec(RelationshipReplies)
    \/ AnalyzeRelationshipsPost
    \/ OrderChaptersPrep
    \/ OrderChaptersExec(OrderReplies)
    \/ OrderChaptersPost
    \/ WriteChaptersPrep
    \/ WriteChaptersExec(ChapterReplies)
    \/ WriteChaptersPost
    \/ WriteBeginnerFriendlyEpisodePrep
    \/ WriteBeginnerFriendlyEpisodeExec(EpisodeReplies)
    \/ WriteBeginnerFriendlyEpisodePost
    \/ CombineTutorialPrep(IndexReplies)
    \/ CombineTutorialExec
    \/ CombineTutorialPost

Spec == Init /\ [][Next]_vars

(***************************************************************************)
(* A run that finds the cache file of an earlier run.  call_llm writes a   *)
(* reply to the file before the stage validates it, so the file can hold   *)
(* a reply the stage rejects as well as one it accepts.                    *)
(***************************************************************************)
StaleCache ==
    [prompt \in {<<"IdentifyAbstractions", 0>>, <<"AnalyzeRelationships", 0>>,
                 <<"OrderChapters", 0>>} |-> Prose]

GoodCache ==
    (<<"IdentifyAbstractions", 0>>
        :> Yaml(FencedYaml(YList(<<AbstractionItem(NameA, <<YInt(0)>>)>>)))) @@
    (<<"AnalyzeRelationships", 0>>
        :> RelationshipsData(<<RelationshipItem(YInt(0), YInt(0), <<"u">>)>>)) @@
    (<<"OrderChapters", 0>> :> Yaml(FencedYaml(YList(<<YInt(0)>>)))) @@
    (<<"WriteChapters", 1, <<>>>> :> Md(<<"x">>)) @@
    (<<"WriteBeginnerFriendlyEpisode", 0>> :> Md(<<"e">>))

PriorCaches == {StaleCache, GoodCache}

InitCache ==
    /\ \E use_cache \in BOOLEAN, publish_to_nostr \in BOOLEAN :
          shared = [use_cache |-> use_cache, publish_to_nostr |-> publish_to_nostr]
    /\ curr = "FetchRepo"
    /\ phase = "prep"
    /\ cur_retry = 0
    /\ prep_res = <<>>
    /\ exec_res = <<>>
    /\ chapters_written_so_far = <<>>
    /\ cache \in PriorCaches
    /\ error = "none"
    /\ started = <<>>
    /\ index_prompt = <<>>
    /\ written = <<>>
    /\ published = <<>>
    /\ llm_call = NoCall
    /\ attempts = 0 - 1
    /\ arg = NoArg
    /\ ret = NoRet

SpecCache == InitCache /\ [][Next]_vars

(***************************************************************************)
(* A run whose exec attempts are counted, and in which every call returns: *)
(* the flow is one thread that goes on as long as it has a step to take.   *)
(* The cache is off: it changes what a call returns, never whether it      *)
(* returns, and the oracle answers from the same sets either way.          *)
(***************************************************************************)
InitLive ==
    /\ \E publish_to_nostr \in BOOLEAN :
          shared = [use_cache |-> FALSE, publish_to_nostr |-> publish_to_nostr]
    /\ curr = "FetchRepo"
    /\ phase = "prep"
    /\ cur_retry = 0
    /\ prep_res = <<>>
    /\ exec_res = <<>>
    /\ chapters_written_so_far = <<>>
    /\ cache = <<>>
    /\ error = "none"
    /\ started = <<>>
    /\ index_prompt = <<>>
    /\ written = <<>>
    /\ published = <<>>
    /\ llm_call = NoCall
    /\ attempts = 0
    /\ arg = NoArg
    /\ ret = NoRet

SpecLive == InitLive /\ [][Next]_vars /\ WF_vars(Next)

(***************************************************************************)
(* The inputs the functions are applied to on their own.                   *)
(***************************************************************************)
\* all sequences over S of length at most n
RECURSIVE SeqsUpTo(_, _)
SeqsUpTo(S, n) ==
    IF n = 0 THEN {<<>>}
    ELSE LET shorter == SeqsUpTo(S, n - 1)
         IN  shorter \cup {Append(s, x) : s \in {q \in shorter : Len(q) = n - 1}, x \in S}

TextTokens ==
    { Text("block", YList(<<YInt(0)>>)),
      Text("block", YMap([summary |-> YStr(<<"s">>)])),
      Text("flow", YList(<<>>)),
      Text("prose", YStr(<<"p">>)),
      Text("cut", YamlError) }

Tokens == {Fence, FenceYaml, FenceYml} \cup TextTokens

\* the responses of at most MaxTokens tokens
Responses ==
    { r \in SeqsUpTo(Tokens, MaxTokens) :
        \A i \in 1..(Len(r) - 1) : ~(r[i].k = "text" /\ r[i + 1].k = "text") }

BodyChars == {"#", " ", "a", "b", "\n"}
Bodies == SeqsUpTo(BodyChars, MaxBodyLen)
Names == {<<"a">>, <<"a", "b">>}

\* a label of n characters: every p-th one is c, the others count the position
Label(n, p, c) == [i \in 1..n |-> IF i % p = 0 THEN c ELSE DigitChar(i % 10)]
Labels == {Label(n, p, c) : n \in 0..MaxLabelLen, p \in {2, 7, 9, 100}, c \in {"\"", "\n"}}

\* the entries of an index list: integers around the range, the other YAML
\* scalars, and strings with and without a comment
IndexChars == {"0", "1", "-", " ", "x"}
IndexStrings == SeqsUpTo(IndexChars, MaxStrLen)

Entries ==
    {YInt(i) : i \in (0 - 1)..(MaxFiles + 1)}
    \cup {YBool(TRUE), YBool(FALSE), YFloat(<<"1", ".", "0">>), YNull, YList(<<>>)}
    \cup {YStr(st) : st \in IndexStrings}
    \cup {YStr(st \o <<"#", "c">>) : st \in IndexStrings}

SmallEntries ==
    {YInt(0), YInt(1), YBool(TRUE), YStr(<<"1", " ", "#", " ", "c">>)}

EntryLists ==
    {<<>>}
    \cup {<<e>> : e \in Entries}
    \cup {<<e, f>> : e \in SmallEntries, f \in Entries}
    \cup {<<e, f, g>> : e \in SmallEntries, f \in SmallEntries, g \in SmallEntries}

\* items that fail a check before the indices are looked at
MalformedItems ==
    { YStr(<<"x">>),
      YMap([name |-> YStr(NameA), description |-> YStr(<<"d">>)]),
      YMap([name |-> YInt(1), description |-> YStr(<<"d">>), file_indices |-> YList(<<>>)]),
      YMap([name |-> YStr(NameA), description |-> YNull, file_indices |-> YList(<<>>)]),
      YMap([name |-> YStr(NameA), description |-> YStr(<<"d">>), file_indices |-> YInt(0)]) }

AbstractionValues ==
    {YList(<<AbstractionItem(NameA, es)>>) : es \in EntryLists}
    \cup {YList(<<AbstractionItem(NameA, <<e>>), AbstractionItem(NameC, <<f>>)>>) :
            e \in SmallEntries, f \in SmallEntries}
    \cup {YList(<<AbstractionItem(NameA, <<YInt(0)>>), m>>) : m \in MalformedItems}
    \cup {YList(<<>>), YMap([name |-> YStr(NameA)]), YStr(<<"p">>), YNull}

MalformedRelationships ==
    { YInt(0),
      YMap([from_abstraction |-> YInt(0), label |-> YStr(<<"u">>)]),
      YMap([from_abstraction |-> YInt(0), to_abstraction |-> YInt(0), label |-> YNull]) }

RelationshipValues ==
    {YMap([summary |-> YStr(<<"s">>),
           relationships |-> YList(<<IF swap THEN RelationshipItem(f, e, <<"u">>)
                                             ELSE RelationshipItem(e, f, <<"u">>)>>)]) :
        e \in SmallEntries, f \in Entries, swap \in BOOLEAN}
    \cup {YMap([summary |-> YStr(<<"s">>),
                relationships |-> YList(<<RelationshipItem(YInt(0), YInt(0), <<"u">>), m>>)]) :
            m \in MalformedRelationships}
    \cup {YMap([summary |-> YStr(<<"s">>), relationships |-> YList(<<>>)]),
          YMap([summary |-> YNull, relationships |-> YList(<<>>)]),
          YMap([summary |-> YStr(<<"s">>), relationships |-> YStr(<<"p">>)]),
          YMap([summary |-> YStr(<<"s">>)]),
          YMap([summary |-> YStr(<<"s">>),
                relationships |-> YList(<<RelationshipItem(YInt(0), YInt(0), <<"u">>)>>),
                notes |-> YStr(<<"n">>)]),
          YMap([summary |-> YStr(<<"s">>),
                relationships |-> YList(<<RelationshipItem(YInt(0), YInt(0), <<>>)>>)]),
          YList(<<>>), YStr(<<"p">>), YNull}

OrderValues ==
    {YList(es) : es \in EntryLists} \cup {YMap([summary |-> YStr(<<"s">>)]), YStr(<<"p">>), YNull}

\* the response that carries a value: fenced, or bare
Carrying(y) ==
    IF IsList(y) \/ IsDict(y)
    THEN {Yaml(FencedYaml(y)), Yaml(<<Text("block", y)>>)}
    ELSE IF y = YNull THEN {Yaml(<<FenceYaml, Fence>>), Yaml(<<>>)}
         ELSE {Yaml(<<FenceYaml, Text("prose", y), Fence>>), Yaml(<<Text("prose", y)>>)}

IdentifyAbstractionsInputs ==
    {[fn |-> "IdentifyAbstractions.exec", response |-> r, file_count |-> n,
      max_abstraction_num |-> max_abstraction_num] :
        r \in UNION {Carrying(y) : y \in AbstractionValues}, n \in 1..MaxFiles,
        max_abstraction_num \in 1..MaxAbstractions}

AnalyzeRelationshipsInputs ==
    {[fn |-> "AnalyzeRelationships.exec", response |-> r, num_abstractions |-> n] :
        r \in UNION {Carrying(y) : y \in RelationshipValues}, n \in 0..MaxAbstractions}

OrderChaptersInputs ==
    {[fn |-> "OrderChapters.exec", response |-> r, num_abstractions |-> n] :
        r \in UNION {Carrying(y) : y \in OrderValues}, n \in 0..MaxAbstractions}

FnInputs ==
    {[fn |-> "parse_yaml_from_llm_response", response |-> r] : r \in Responses}
    \cup {[fn |-> "heading", abstraction_name |-> n, chapter_content |-> b] :
            n \in Names, b \in Bodies}
    \cup {[fn |-> "edge_label", label |-> l] : l \in Labels}

ApplyExtractor ==
    /\ arg.fn = "parse_yaml_from_llm_response"
    /\ ret = NoRet
    /\ ret' = [fn |-> arg.fn, value |-> parse_yaml_from_llm_response(arg.response)]
    /\ UNCHANGED <<arg, pvars>>

ApplyRepairHeading ==
    /\ arg.fn = "heading"
    /\ ret = NoRet
    /\ ret' = [fn |-> arg.fn,
               chapter_content |-> RepairHeading(arg.abstraction_name, arg.chapter_content)]
    /\ UNCHANGED <<arg, pvars>>

ApplyEdgeLabel ==
    /\ arg.fn = "edge_label"
    /\ ret = NoRet
    /\ ret' = [fn |-> arg.fn, edge_label |-> EdgeLabel(arg.label)]
    /\ UNCHANGED <<arg, pvars>>

ApplyIdentifyAbstractions ==
    /\ arg.fn = "IdentifyAbstractions.exec"
    /\ ret = NoRet
    /\ ret' = [fn |-> arg.fn,
               res |-> IdentifyAbstractionsValidate(arg.response, arg.file_count)]
    /\ UNCHANGED <<arg, pvars>>

ApplyAnalyzeRelationships ==
    /\ arg.fn = "AnalyzeRelationships.exec"
    /\ ret = NoRet
    /\ ret' = [fn |-> arg.fn,
               res |-> AnalyzeRelationshipsValidate(arg.response, arg.num_abstractions)]
    /\ UNCHANGED <<arg, pvars>>

ApplyOrderChapters ==
    /\ arg.fn = "OrderChapters.exec"
    /\ ret = NoRet
    /\ ret' = [fn |-> arg.fn,
               res |-> OrderChaptersValidate(arg.response, arg.num_abstractions)]
    /\ UNCHANGED <<arg, pvars>>

\* the flow not run
Idle ==
    /\ shared = <<>>
    /\ curr = "idle"
    /\ phase = "prep"
    /\ cur_retry = 0
    /\ prep_res = <<>>
    /\ exec_res = <<>>
    /\ chapters_written_so_far = <<>>
    /\ cache = <<>>
    /\ error = "none"
    /\ started = <<>>
    /\ index_prompt = <<>>
    /\ written = <<>>
    /\ published = <<>>
    /\ llm_call = NoCall
    /\ attempts = 0 - 1

InitFn ==
    /\ Idle
    /\ \/ arg \in FnInputs
       \/ arg \in IdentifyAbstractionsInputs
       \/ arg \in AnalyzeRelationshipsInputs
       \/ arg \in OrderChaptersInputs
    /\ ret = NoRet

NextFn ==
    \/ ApplyExtractor
    \/ ApplyRepairHeading
    \/ ApplyEdgeLabel
    \/ ApplyIdentifyAbstractions
    \/ ApplyAnalyzeRelationships
    \/ ApplyOrderChapters

SpecFn == InitFn /\ [][NextFn]_vars

\* the flow and the functions on their own, side by side
InitAll == Init \/ InitFn
NextAll == Next \/ NextFn
SpecAll == InitAll /\ [][NextAll]_vars

\* the run in which the oracle answers the abstraction prompt with prose only
ProseReplies ==
    {Yaml(<<Text("prose", YStr(w))>>) : w \in {<<"p">>, <<"p", " ", "q">>, <<"o", "k">>}}

NextProse ==
    \/ FetchRepoPrep
    \/ FetchRepoExec
    \/ FetchRepoPost
    \/ IdentifyAbstractionsPrep
    \/ IdentifyAbstractionsExec(ProseReplies)

SpecProse == Init /\ [][NextProse]_vars

(***************************************************************************)
(* Claims about the functions applied on their own (SpecFn).               *)
(***************************************************************************)
Extracted == ret.fn = "parse_yaml_from_llm_response"
Parses(toks) == SafeLoad(toks) # YamlError

\* the text the extractor parses, by the delimiters of the response
SelectedText(resp) ==
    IF HasYamlFence(resp) THEN Strategy1Text(resp)
    ELSE IF Strategy2Applies(resp) THEN Strategy2Text(resp)
         ELSE Strategy3Text(resp)

\* the text of a strategy that comes after the one selected would parse
LaterStrategyParses(resp) ==
    \/ HasYamlFence(resp) /\ Strategy2Applies(resp) /\ Parses(Strategy2Text(resp))
    \/ (HasYamlFence(resp) \/ Strategy2Applies(resp)) /\ Parses(Strategy3Text(resp))

C5_MappingOrSequenceOrError ==
    Extracted => ret.value.t \in {"map", "list", "error"}

\* C7 as stated: the first line of the body WriteChapters.exec returns is
\* exactly "# " + the abstraction's name.
C7_FirstLineIsHeading ==
    ret.fn = "heading"
        => SplitLines(ret.chapter_content)[1] = Heading(arg.abstraction_name)

\* C8: a rendered edge label has at most 30 characters; a sanitized label of
\* more than 30 is rendered as its first 27 characters and "...", a shorter
\* one unchanged.
C8_EdgeLabelCap ==
    ret.fn = "edge_label" =>
        LET s == Sanitize(arg.label)
        IN  /\ Len(ret.edge_label) <= 30
            /\ Len(s) > 30 => ret.edge_label = SubSeq(s, 1, 27) \o <<".", ".", ".">>
            /\ Len(s) <= 30 => ret.edge_label = s

\* C8's case: a label of 40 characters after sanitizing, rendered in 30
C8_Witness ==
    /\ ret.fn = "edge_label"
    /\ Len(Sanitize(arg.label)) = 40
    /\ Len(ret.edge_label) = 30
    /\ ret.edge_label[30] = "."

(***************************************************************************)
(* Claims about the stages (SpecAll: the run of the flow and the stage     *)
(* validations applied on their own; Spec: the run; SpecProse).            *)
(***************************************************************************)
\* the value a response carries, when the extractor gives a list
ListOf(response) ==
    LET y == parse_yaml_from_llm_response(response.toks)
    IN  IF IsList(y) THEN y.items ELSE <<>>

\* some file_indices entry of some item of the response resolves to an index
\* outside [0, n)
HasIndexOutside(response, n) ==
    \E i \in 1..Len(ListOf(response)) :
        LET item == ListOf(response)[i]
        IN  /\ IsDict(item)
            /\ "file_indices" \in DOMAIN item.m
            /\ IsList(item.m["file_indices"])
            /\ \E k \in 1..Len(item.m["file_indices"].items) :
                  LET idx == ParseIndexEntry(item.m["file_indices"].items[k])
                  IN  idx.ok /\ ~(0 <= idx.v /\ idx.v < n)

\* C1: every index stored in the files of an abstraction that
\* IdentifyAbstractions.exec returns is in [0, N) for the N files of the
\* corpus, and a response with a file_indices entry that resolves outside
\* [0, N) fails the attempt.
C1_FileIndicesInRange ==
    /\ ret.fn = "IdentifyAbstractions.exec" =>
          /\ ret.res.ok =>
                \A i \in 1..Len(ret.res.value) :
                    \A k \in 1..Len(ret.res.value[i].files) :
                        /\ 0 <= ret.res.value[i].files[k]
                        /\ ret.res.value[i].files[k] < arg.file_count
          /\ HasIndexOutside(arg.response, arg.file_count) => ~ret.res.ok
    /\ "abstractions" \in DOMAIN shared =>
          \A i \in 1..Len(shared["abstractions"]) :
              \A k \in 1..Len(shared["abstractions"][i].files) :
                  /\ 0 <= shared["abstractions"][i].files[k]
                  /\ shared["abstractions"][i].files[k] < Len(shared["files"])

\* C1's case: an item lists a valid index and one outside the range, and the
\* attempt has failed on it
C1_Witness ==
    /\ ret.fn = "IdentifyAbstractions.exec"
    /\ HasIndexOutside(arg.response, arg.file_count)
    /\ \E i \in 1..Len(ListOf(arg.response)) :
          /\ IsDict(ListOf(arg.response)[i])
          /\ ListOf(arg.response)[i].m["file_indices"].items[1] = YInt(0)
    /\ ~ret.res.ok
    /\ ret.res.e = "Could not parse index from entry"

\* seq holds every index of [0, n) exactly once
IsPermutation(seq, n) ==
    /\ Len(seq) = n
    /\ \A v \in 0..(n - 1) : Cardinality({i \in 1..Len(seq) : seq[i] = v}) = 1

\* the entries of the response resolve, one by one, to a list of indices that
\* omits an index of [0, n), repeats one or holds one outside the range
OrderIsDefective(response, n) ==
    LET entries == ListOf(response)
        idx == [i \in 1..Len(entries) |-> ParseIndexEntry(entries[i])]
    IN  /\ \A i \in 1..Len(idx) : idx[i].ok
        /\ ~IsPermutation([i \in 1..Len(idx) |-> idx[i].v], n)

\* C2: what OrderChapters.exec returns is a permutation of [0, |Abstractions|);
\* a response that omits an index, repeats one or holds one outside the range
\* fails the attempt, and a failed stage stores no chapter order.
C2_OrderIsPermutation ==
    /\ ret.fn = "OrderChapters.exec" =>
          /\ ret.res.ok => IsPermutation(ret.res.value, arg.num_abstractions)
          /\ OrderIsDefective(arg.response, arg.num_abstractions) => ~ret.res.ok
    /\ "chapter_order" \in DOMAIN shared =>
          IsPermutation(shared["chapter_order"], Len(shared["abstractions"]))
    /\ (curr \in {"OrderChapters", "failed"} /\ started # <<>>
            /\ started[Len(started)] = "OrderChapters")
          => "chapter_order" \notin DOMAIN shared

\* C2's case: every entry is an index of the range, one index is repeated, and
\* the attempt has failed
C2_Witness ==
    /\ ret.fn = "OrderChapters.exec"
    /\ arg.num_abstractions = 2
    /\ Len(ListOf(arg.response)) = 2
    /\ \A i \in 1..2 : ParseIndexEntry(ListOf(arg.response)[i]) = ParseOk(1)
    /\ ~ret.res.ok

\* some endpoint of some entry of "relationships" resolves outside [0, n)
HasEndpointOutside(response, n) ==
    LET y == parse_yaml_from_llm_response(response.toks)
        rels == IF IsDict(y) /\ "relationships" \in DOMAIN y.m
                     /\ IsList(y.m["relationships"])
                THEN y.m["relationships"].items ELSE <<>>
    IN  \E i \in 1..Len(rels), key \in {"from_abstraction", "to_abstraction"} :
            /\ IsDict(rels[i])
            /\ key \in DOMAIN rels[i].m
            /\ LET idx == ParseEndpoint(rels[i].m[key])
               IN  idx.ok /\ ~(0 <= idx.v /\ idx.v < n)

\* every edge of details has both ends in [0, n)
EdgesWithin(details, n) ==
    \A i \in 1..Len(details) :
        /\ 0 <= details[i].from /\ details[i].from < n
        /\ 0 <= details[i].to /\ details[i].to < n

\* C3: every edge AnalyzeRelationships.exec stores has both ends in
\* [0, |Abstractions|), an entry with an end that resolves outside the range
\* fails the attempt, and OrderChapters.prep, which indexes the abstraction
\* list by the ends of every edge, never indexes out of bounds.
C3_EdgesWithinAbstractions ==
    /\ ret.fn = "AnalyzeRelationships.exec" =>
          /\ ret.res.ok => EdgesWithin(ret.res.value.details, arg.num_abstractions)
          /\ HasEndpointOutside(arg.response, arg.num_abstractions) => ~ret.res.ok
    /\ "relationships" \in DOMAIN shared =>
          EdgesWithin(shared["relationships"].details, Len(shared["abstractions"]))
    /\ error # "list index out of range"

\* C3's case: OrderChapters.prep has named the ends of an edge that reaches
\* the last abstraction
C3_Witness ==
    /\ curr = "OrderChapters"
    /\ phase = "exec"
    /\ \E i \in 1..Len(shared["relationships"].details) :
          shared["relationships"].details[i].from = Len(shared["abstractions"]) - 1

\* C6 as stated: when the oracle answers every attempt of the Abstraction
\* Stage with plain prose, the run aborts with the extractor's error.
C6_ProseAbortsWithExtractionError ==
    (curr = "failed" /\ started[Len(started)] = "IdentifyAbstractions")
        => error = ExtractionError.e

\* C9: after the Ordering and Narrative stages, the navigation listing has
\* |Abstractions| + 1 entries; entry i has number i, the title and the
\* description of abstraction ChapterOrder[i] and is paired with the chapter
\* file whose content is document i; the last entry is the overview, with
\* number |Abstractions| + 1.
C9_NavigationListing ==
    (index_prompt # <<>> /\ prep_res # <<>>) =>
        LET chapter_links == index_prompt.chapter_links
            chapter_files == prep_res.chapter_files
            abstractions == shared["abstractions"]
            n == Len(shared["abstractions"])
        IN  /\ Len(chapter_links) = n + 1
            /\ Len(chapter_files) = n
            /\ \A i \in 1..n :
                  /\ chapter_links[i].number = i
                  /\ chapter_links[i].title
                        = abstractions[shared["chapter_order"][i] + 1].name
                  /\ chapter_links[i].description
                        = abstractions[shared["chapter_order"][i] + 1].description
                  /\ chapter_files[i].filename = chapter_links[i].filename
                  /\ chapter_files[i].content = shared["chapters"][i]
            /\ chapter_links[n + 1].number = n + 1
            /\ chapter_links[n + 1].title = OverviewTitle
            /\ chapter_links[n + 1].filename = OverviewFilename

\* C9's case: two abstractions whose chapters come in the other order
C9_Witness ==
    /\ index_prompt # <<>>
    /\ prep_res # <<>>
    /\ shared["chapter_order"] = <<1, 0>>
    /\ index_prompt.chapter_links[1].title = NameC
    /\ Len(index_prompt.chapter_links) = 3

\* the stages in the order of the flow, and the key each stores its output under
StageOrder ==
    <<"FetchRepo", "IdentifyAbstractions", "AnalyzeRelationships", "OrderChapters",
      "WriteChapters", "WriteBeginnerFriendlyEpisode", "CombineTutorial">>

OutputKey(node) ==
    CASE node = "FetchRepo" -> "files"
      [] node = "IdentifyAbstractions" -> "abstractions"
      [] node = "AnalyzeRelationships" -> "relationships"
      [] node = "OrderChapters" -> "chapter_order"
      [] node = "WriteChapters" -> "chapters"
      [] node = "WriteBeginnerFriendlyEpisode" -> "beginner_friendly_episode"
      [] node = "CombineTutorial" -> "final_output_dir"

\* C10: the stages start in the fixed order; when a stage starts, every stage
\* before it has stored its output; and one stage at most is running: the one
\* started last, or the next one of the order about to start.
C10_StagesInOrder ==
    /\ Len(started) <= Len(StageOrder)
    /\ started = SubSeq(StageOrder, 1, Len(started))
    /\ \A i \in 1..(Len(started) - 1) : OutputKey(started[i]) \in DOMAIN shared
    /\ \A i \in 1..Len(StageOrder) :
          i > Len(started) => OutputKey(StageOrder[i]) \notin DOMAIN shared
    /\ curr \in {StageOrder[i] : i \in 1..Len(StageOrder)} =>
          \/ phase = "prep" /\ curr = StageOrder[Len(started) + 1]
          \/ phase # "prep" /\ curr = started[Len(started)]

\* C10's case: the run has gone through the seven stages
C10_Witness ==
    /\ curr = "done"
    /\ started = StageOrder
    /\ "final_output_dir" \in DOMAIN shared

(***************************************************************************)
(* Claims about the chapters, the retries and the cache.                   *)
(***************************************************************************)
\* the bodies joined by the separator, the last one last
JoinedBodies(bodies) ==
    LET RECURSIVE upto(_)
        upto(k) == IF k = 0 THEN <<>>
                   ELSE IF k = 1 THEN bodies[1]
                   ELSE upto(k - 1) \o <<"\n---\n">> \o bodies[k]
    IN  upto(Len(bodies))

C12_OnlyFirstAttemptConsultsCache ==
    llm_call # NoCall =>
        /\ llm_call.hit => llm_call.attempt = 0
        /\ llm_call.attempt > 0 => ~llm_call.hit

\* C12's case: a retry asked the oracle afresh while the cache was switched
\* on and held an entry for the very prompt of the call
C12_Witness ==
    /\ llm_call # NoCall
    /\ llm_call.attempt > 0
    /\ Get("use_cache", TRUE)
    /\ llm_call.prompt \in DOMAIN cache
    /\ ~llm_call.hit

\* the bound the flow configures for each stage
ConfiguredBound(node) ==
    IF node \in {"FetchRepo", "CombineTutorial"} THEN 1
    ELSE IF node = "WriteBeginnerFriendlyEpisode" THEN 3
    ELSE 5

C14_PublishFailureKeepsWriting ==
    (/\ started # <<>>
     /\ started[Len(started)] = "CombineTutorial"
     /\ curr = "failed" \/ (curr = "CombineTutorial" /\ phase = "post"))
        => [k \in 1..Len(written) |-> written[k].filename]
              = [k \in 1..Len(Artifacts(prep_res)) |-> Artifacts(prep_res)[k].filename]

\* C15: given the maximum abstraction count M, the list of abstractions the
\* Abstraction stage returns never has more than M elements, whatever the
\* oracle returns.
C15_AtMostMaxAbstractions ==
    (ret.fn = "IdentifyAbstractions.exec" /\ ret.res.ok) =>
        Len(ret.res.value) <= arg.max_abstraction_num

\* a candidate item fails validation: it is not a mapping, lacks a key, has
\* a field of the wrong type, or has an index entry that does not parse or is
\* out of [0, n)
ItemFails(item, n) ==
    \/ ~IsDict(item)
    \/ ~({"name", "description", "file_indices"} \subseteq DOMAIN item.m)
    \/ ~IsStr(item.m["name"])
    \/ ~IsStr(item.m["description"])
    \/ ~IsList(item.m["file_indices"])
    \/ \E k \in 1..Len(item.m["file_indices"].items) :
          LET idx == ParseIndexEntry(item.m["file_indices"].items[k])
          IN  ~idx.ok \/ idx.v < 0 \/ idx.v >= n

\* C16: validation in the Abstraction stage is all or nothing: when any
\* candidate item of the response fails validation the attempt fails as a
\* whole, a successful attempt returns one abstraction for every candidate
\* item, and while the stage is still attempting, or has failed, the shared
\* store holds no abstraction list.
C16_AllOrNothing ==
    /\ ret.fn = "IdentifyAbstractions.exec" =>
          /\ (\E i \in 1..Len(ListOf(arg.response)) :
                 ItemFails(ListOf(arg.response)[i], arg.file_count)) => ~ret.res.ok
          /\ ret.res.ok => Len(ret.res.value) = Len(ListOf(arg.response))
    /\ (started # <<>> /\ started[Len(started)] = "IdentifyAbstractions"
        /\ (curr = "failed" \/ phase = "exec")) =>
          /\ "abstractions" \notin DOMAIN shared
          /\ exec_res = <<>>

\* C16's case: the response lists a valid item and then an invalid one, and
\* the attempt has failed
C16_Witness ==
    /\ ret.fn = "IdentifyAbstractions.exec"
    /\ Len(ListOf(arg.response)) = 2
    /\ ~ItemFails(ListOf(arg.response)[1], arg.file_count)
    /\ ItemFails(ListOf(arg.response)[2], arg.file_count)
    /\ ~ret.res.ok

\* C17: after a successful Ordering stage, WriteChapters produces exactly one
\* document for every entry of the chapter order, in position order from the
\* first position on; the document at position i has the chapter number i + 1
\* and belongs to the abstraction the chapter order names at i; and the
\* stored list of documents is as long as the chapter order.
C17_OneDocumentPerOrderEntry ==
    /\ (curr = "WriteChapters" /\ phase \in {"exec", "post"}) =>
          /\ Len(prep_res) = Len(shared["chapter_order"])
          /\ \A k \in 1..Len(prep_res) :
                /\ prep_res[k].chapter_num = k
                /\ prep_res[k].abstraction_index = shared["chapter_order"][k]
                /\ prep_res[k].abstraction_details
                      = shared["abstractions"][shared["chapter_order"][k] + 1]
          /\ Len(exec_res) <= Len(prep_res)
          /\ Len(exec_res) >= 1 => llm_call.prompt[2] = Len(exec_res)
          /\ phase = "post" => Len(exec_res) = Len(shared["chapter_order"])
    /\ "chapters" \in DOMAIN shared =>
          Len(shared["chapters"]) = Len(shared["chapter_order"])

\* C17's case: the order puts the second abstraction first, and the two
\* documents have been stored
C17_Witness ==
    /\ "chapters" \in DOMAIN shared
    /\ shared["chapter_order"] = <<1, 0>>
    /\ Len(shared["chapters"]) = 2

\* C18: the failure-marker text call_llm returns when the oracle call fails
\* is never written to the cache: no entry of the cache is a failure marker,
\* so no call can get one from the cache.
C18_FailureMarkerNeverCached ==
    \A prompt \in DOMAIN cache : cache[prompt] \notin {FailureMarkerYaml, FailureMarkerMd}

\* C18's case: the call for the first chapter was made with the cache on, the
\* oracle call failed, the marker came back under the repaired heading, and
\* the cache has no entry for the prompt
C18_Witness ==
    /\ curr = "WriteChapters"
    /\ Len(exec_res) = 1
    /\ llm_call.use_cache
    /\ ~llm_call.hit
    /\ exec_res[1] = RepairHeading(prep_res[1].abstraction_details.name,
                                   FailureMarkerMd.chars)
    /\ llm_call.prompt \notin DOMAIN cache

\* the entities the early stages store: the file corpus, the abstraction
\* list, the relationships with their summary, and the chapter order
StoredEntities == {"files", "abstractions", "relationships", "chapter_order"}

\* C19: once stored, the file corpus, the abstraction list, the relationship
\* set with its summary and the chapter order are never modified: every step
\* of every stage leaves each of them that is stored as it is.
C19_StoredEntitiesImmutable ==
    [][\A key \in StoredEntities :
          key \in DOMAIN shared =>
              (key \in DOMAIN shared' /\ shared'[key] = shared[key])]_vars

\* C19's case: the run has gone through every later stage with the four
\* entities stored
C19_Witness ==
    /\ StoredEntities \subseteq DOMAIN shared
    /\ "final_output_dir" \in DOMAIN shared
    /\ shared["relationships"].details # <<>>
    /\ Len(shared["chapter_order"]) = 2

\* the text holds the failure marker of call_llm
CarriesFailureMarker(chars) ==
    \E i \in 1..Len(chars) :
        /\ i + Len(FailureMarkerMd.chars) - 1 <= Len(chars)
        /\ SubSeq(chars, i, i + Len(FailureMarkerMd.chars) - 1) = FailureMarkerMd.chars

\* C20: a failed oracle call is never turned into a document: the
\* failure-marker text, with or without a repaired heading, is not stored as
\* the body of a chapter or as the overview episode, and is not passed as
\* prior context to a later chapter.
C20_FailedCallNeverADocument ==
    /\ "chapters" \in DOMAIN shared =>
          \A k \in 1..Len(shared["chapters"]) : ~CarriesFailureMarker(shared["chapters"][k])
    /\ "beginner_friendly_episode" \in DOMAIN shared =>
          ~CarriesFailureMarker(shared["beginner_friendly_episode"])
    /\ (curr = "WriteChapters" /\ Len(exec_res) >= 1) =>
          ~CarriesFailureMarker(llm_call.prompt[3])

(***************************************************************************)
(* Claims about the details of the stages.                                 *)
(***************************************************************************)
\* C21: for every item the Abstraction stage accepts, the files list is
\* strictly increasing (sorted, no index twice) and holds exactly the indices
\* the entries of the item's file_indices resolve to.
C21_FilesSortedAndExact ==
    (ret.fn = "IdentifyAbstractions.exec" /\ ret.res.ok) =>
        \A i \in 1..Len(ret.res.value) :
            LET files == ret.res.value[i].files
                file_indices == ListOf(arg.response)[i].m["file_indices"].items
            IN  /\ \A k \in 1..(Len(files) - 1) : files[k] < files[k + 1]
                /\ {files[k] : k \in 1..Len(files)}
                      = {ParseIndexEntry(file_indices[k]).v : k \in 1..Len(file_indices)}

\* C21's case: an accepted item lists three entries, out of order and with a
\* repeat, and two indices are stored for it
C21_Witness ==
    /\ ret.fn = "IdentifyAbstractions.exec"
    /\ ret.res.ok
    /\ Len(ListOf(arg.response)) = 1
    /\ Len(ListOf(arg.response)[1].m["file_indices"].items) = 3
    /\ ParseIndexEntry(ListOf(arg.response)[1].m["file_indices"].items[1]).v = 1
    /\ ret.res.value[1].files = <<0, 1>>

\* the value the extractor gives for the response
Parsed(response) == parse_yaml_from_llm_response(response.toks)

\* the top-level value is a mapping with the key summary, a string, and the
\* key relationships, a sequence
TopLevelOk(y) ==
    /\ IsDict(y)
    /\ {"summary", "relationships"} \subseteq DOMAIN y.m
    /\ IsStr(y.m["summary"])
    /\ IsList(y.m["relationships"])

\* an entry of relationships fails its checks
EntryFails(rel, n) ==
    \/ ~IsDict(rel)
    \/ ~({"from_abstraction", "to_abstraction", "label"} \subseteq DOMAIN rel.m)
    \/ ~IsStr(rel.m["label"])
    \/ \E key \in {"from_abstraction", "to_abstraction"} :
          LET idx == ParseEndpoint(rel.m[key])
          IN  ~idx.ok \/ idx.v < 0 \/ idx.v >= n

\* C22 as stated: the Relationship stage accepts the parsed result only if it
\* is a mapping with exactly the keys summary (a string) and relationships (a
\* sequence); a mapping with any additional key is rejected.
C22_ExactlyTwoKeys ==
    (ret.fn = "AnalyzeRelationships.exec" /\ ret.res.ok) =>
        /\ TopLevelOk(Parsed(arg.response))
        /\ DOMAIN Parsed(arg.response).m = {"summary", "relationships"}

\* C22 amended: the Relationship stage accepts the parsed result exactly when
\* it is a mapping that has the key summary with a string and the key
\* relationships with a sequence, and every entry of the sequence passes its
\* checks; keys besides the two are not looked at, and the stored value has
\* the summary and the edges alone.
C22_AtLeastTwoKeys ==
    ret.fn = "AnalyzeRelationships.exec" =>
        LET y == Parsed(arg.response)
        IN  /\ ret.res.ok <=>
                  /\ TopLevelOk(y)
                  /\ \A i \in 1..Len(y.m["relationships"].items) :
                        ~EntryFails(y.m["relationships"].items[i], arg.num_abstractions)
            /\ ret.res.ok =>
                  /\ DOMAIN ret.res.value = {"summary", "details"}
                  /\ ret.res.value.summary = y.m["summary"].s
                  /\ Len(ret.res.value.details) = Len(y.m["relationships"].items)

\* C22's case: a mapping with a third key has been accepted
C22_Witness ==
    /\ ret.fn = "AnalyzeRelationships.exec"
    /\ ret.res.ok
    /\ "notes" \in DOMAIN Parsed(arg.response).m

\* C23: every edge the Relationship stage stores has a label that is not
\* empty; an entry whose label is the empty string is not accepted.
C23_LabelsNotEmpty ==
    (ret.fn = "AnalyzeRelationships.exec" /\ ret.res.ok) =>
        \A i \in 1..Len(ret.res.value.details) : ret.res.value.details[i].label # <<>>

\* the entry values of the response a stage was given: the file_indices of
\* every item, the two ends of every relationship, or the entries of the order
EntryValues ==
    LET y == Parsed(arg.response)
    IN  IF arg.fn = "IdentifyAbstractions.exec"
        THEN UNION {{y.items[i].m["file_indices"].items[k] :
                        k \in 1..Len(y.items[i].m["file_indices"].items)} :
                    i \in {j \in 1..Len(ListOf(arg.response)) :
                              /\ IsDict(y.items[j])
                              /\ "file_indices" \in DOMAIN y.items[j].m
                              /\ IsList(y.items[j].m["file_indices"])}}
        ELSE IF arg.fn = "AnalyzeRelationships.exec"
        THEN IF IsDict(y) /\ "relationships" \in DOMAIN y.m /\ IsList(y.m["relationships"])
             THEN UNION {{y.m["relationships"].items[i].m[key] :
                             key \in {"from_abstraction", "to_abstraction"}
                                        \cap DOMAIN y.m["relationships"].items[i].m} :
                         i \in {j \in 1..Len(y.m["relationships"].items) :
                                   IsDict(y.m["relationships"].items[j])}}
             ELSE {}
        ELSE IF arg.fn = "OrderChapters.exec"
        THEN {ListOf(arg.response)[i] : i \in 1..Len(ListOf(arg.response))}
        ELSE {}

\* C24: index entries are parsed by the same rule in the three stages: for
\* every entry value, the parser of the Abstraction and Ordering stages and
\* the endpoint parser of the Relationship stage agree on whether the entry
\* is accepted and on the integer it resolves to.
C24_SameParsingRule ==
    ret.fn \in {"IdentifyAbstractions.exec", "AnalyzeRelationships.exec", "OrderChapters.exec"} =>
        \A entry \in EntryValues : ParseIndexEntry(entry) = ParseEndpoint(entry)

\* C25: heading repair keeps the content: a body whose first line is the
\* right heading is returned unchanged; when the first line is another
\* heading, that one line is replaced by "# " + name and every other line is
\* kept, the number of lines unchanged; when the first line is no heading,
\* the heading is put before the body and every original line is kept.
C25_RepairKeepsContent ==
    ret.fn = "heading" =>
        LET lines == SplitLines(arg.chapter_content)
            actual_heading == Heading(arg.abstraction_name)
        IN  IF lines[1] = actual_heading
            THEN ret.chapter_content = arg.chapter_content
            ELSE IF StartsWith(Strip(lines[1]), <<"#">>)
                 THEN SplitLines(ret.chapter_content) = <<actual_heading>> \o Tail(lines)
                 ELSE ret.chapter_content
                         = actual_heading \o <<"\n", "\n">> \o arg.chapter_content

\* the filename of the chapter with a number and a name: the number on two
\* digits, an underscore, the name with every character that is not a letter
\* or a digit replaced by "_" and lowercased, and ".md"
ExpectedFilename(number, name) ==
    (IF number < 10 THEN <<"0">> ELSE <<>>) \o NatChars(number) \o <<"_">>
        \o [i \in 1..Len(name) |-> IF IsAlnum(name[i]) THEN LowerChar(name[i]) ELSE "_"]
        \o <<".", "m", "d">>

\* the name of the abstraction the chapter order puts at position k
OwnerName(k) == shared["abstractions"][shared["chapter_order"][k] + 1].name

\* C26: for every position of the chapter order, the filename WriteChapters
\* uses for the chapter in its listing and references is the filename under
\* which CombineTutorial writes the document and lists it; both are the
\* number on two digits, "_", the sanitized lowercased name and ".md"; and
\* the filenames of distinct positions are distinct.
C26_FilenamesConsistent ==
    /\ (curr = "WriteChapters" /\ phase \in {"exec", "post"}) =>
          \A k \in 1..Len(prep_res) :
              prep_res[k].filename = ExpectedFilename(k, OwnerName(k))
    /\ (curr = "CombineTutorial" /\ phase = "exec") =>
          LET items == ItemsToProcess(shared["chapter_order"], shared["abstractions"], TRUE)
              chapter_files == prep_res.chapter_files
          IN  /\ Len(chapter_files) = Len(shared["chapter_order"])
              /\ \A k \in 1..Len(chapter_files) :
                    /\ chapter_files[k].filename = items[k].filename
                    /\ chapter_files[k].filename = ExpectedFilename(k, OwnerName(k))
                    /\ index_prompt.chapter_links[k].filename = chapter_files[k].filename
              /\ \A k, l \in 1..Len(chapter_files) :
                    k # l => chapter_files[k].filename # chapter_files[l].filename

\* C26's case: CombineTutorial has named the files of two chapters, the
\* first of them owned by the second abstraction
C26_Witness ==
    /\ curr = "CombineTutorial"
    /\ phase = "exec"
    /\ shared["chapter_order"] = <<1, 0>>
    /\ Len(prep_res.chapter_files) = 2
    /\ prep_res.chapter_files[2].filename = <<"0", "2", "_", "a", "_", "b", ".", "m", "d">>

\* C27: when the run is configured with use_cache = False, no oracle call of
\* the pipeline, the detection of the repository type and the synthesis of
\* the landing document included, reads a response from the cache or writes
\* one to it.
C27_NoCacheUseWhenDisabled ==
    ("use_cache" \in DOMAIN shared /\ ~shared["use_cache"]) =>
        /\ cache = <<>>
        /\ llm_call # NoCall => (~llm_call.use_cache /\ ~llm_call.hit)

\* C28: a retry leaves the cache as it is: no step taken while the retry
\* counter is above 0 changes the cache, and an entry the cache holds is
\* never replaced, so the response that failed validation on the first
\* attempt is still the entry of its prompt after a later attempt succeeded.
C28_RetriesLeaveCacheUnchanged ==
    [][/\ cur_retry > 0 => cache' = cache
       /\ \A prompt \in DOMAIN cache :
             prompt \in DOMAIN cache' /\ cache'[prompt] = cache[prompt]]_vars

\* C28's case: the first attempt of the Abstraction stage got the cached
\* prose, a later attempt has succeeded, and the cache still holds the prose
\* for the prompt
C28_Witness ==
    /\ curr = "IdentifyAbstractions"
    /\ phase = "post"
    /\ cur_retry > 0
    /\ Get("use_cache", TRUE)
    /\ <<"IdentifyAbstractions", 0>> \in DOMAIN cache
    /\ cache[<<"IdentifyAbstractions", 0>>] = Prose
    /\ exec_res # <<>>

\* C29: in every completed run, each filename of the navigation entries
\* handed to the synthesis of the landing document, the chapter files and the
\* trailing overview file, is a file CombineTutorial.exec has written, also
\* when the content of the overview episode is empty.
C29_NavigationEntriesResolve ==
    "final_output_dir" \in DOMAIN shared =>
        \A k \in 1..Len(index_prompt.chapter_links) :
            \E w \in 1..Len(written) :
                written[w].filename = index_prompt.chapter_links[k].filename

\* the most attempts a run can make once the chapter order has n entries
AttemptsBound(n) == 1 + 5 + 5 + 5 + 5 * n + 3 + 1

\* the run has ended: completed, with the final output directory recorded,
\* or failed
Ended ==
    \/ curr = "done" /\ "final_output_dir" \in DOMAIN shared
    \/ curr = "failed"

\* C30: when every call returns, every run ends, completed with the final
\* output directory recorded or failed; the number of stage attempts of a run
\* is at most 1 + 5 + 5 + 5 + 5 * |ChapterOrder| + 3 + 1; and no stage is
\* entered again once it has been started.
C30_Termination ==
    /\ <>Ended
    /\ [](attempts <= AttemptsBound(IF "chapter_order" \in DOMAIN shared
                                    THEN Len(shared["chapter_order"]) ELSE 0))
    /\ [](\A i, j \in 1..Len(started) : i # j => started[i] # started[j])

\* C30's case: a run has completed after the three validating stages each
\* took their five attempts
C30_Witness ==
    /\ curr = "done"
    /\ "final_output_dir" \in DOMAIN shared
    /\ Len(shared["chapter_order"]) = 2
    /\ attempts = 1 + 5 + 5 + 5 + 2 + 1 + 1

====
